---- MODULE Spec2Model ----
(***************************************************************************)
(* GitHub Copilot metrics -> Datadog pipeline (ghrust).                     *)
(*                                                                         *)
(* The module models                                                       *)
(*   - the flattening of CopilotMetrics snapshots into Datadog series       *)
(*     (services/datadog/client.rs, services/datadog/models.rs),            *)
(*   - DatadogClient::send_metrics with its chunked submission,             *)
(*   - the two orchestrators of the repository: function_handler of         *)
(*     main.rs (with processors/enterprise.rs and processors/team.rs) and   *)
(*     function_handler of handler.rs (process_metrics and its dedicated    *)
(*     process_team_metrics),                                               *)
(*   - a direct call of the public DatadogClient::send_metrics.             *)
(***************************************************************************)
EXTENDS Integers, Sequences, FiniteSets, TLC

(***************************************************************************)
(* Bounds of the model.                                                    *)
(***************************************************************************)
\* longest list of team slugs read from GITHUB_TEAM_SLUGS
MaxTeams == 2
\* longest snapshot list a fetch returns to handler.rs (one send per snapshot)
MaxHandlerSnapshots == 2
\* most fetch / clock / submit failures the environment produces in one run
MaxFailures == 2
\* snapshot list lengths that give a Series of one full chunk, of two chunks
\* and of three chunks (two points per plain snapshot)
FullChunkSnapshots == 50
TwoChunkSnapshots == 51
ThreeChunkSnapshots == 125

(***************************************************************************)
(* Program constants.                                                      *)
(***************************************************************************)
\* all_series.chunks(100)
ChunkSize == 100

(***************************************************************************)
(* Option<T>: None is the empty sequence, Some(v) the one-element sequence. *)
(***************************************************************************)
None == << >>
Some(v) == << v >>
IsSome(o) == o # << >>
UnwrapOr(o, d) == IF o = << >> THEN d ELSE o[1]
\* Option<Vec<T>> iterated by `if let Some(xs) = .. { for x in xs {..} }`
ItemsOf(o) == IF o = << >> THEN << >> ELSE o[1]

\* `v as f64`: every integer of the model lies within TLC's 32-bit range,
\* far below 2^53, where the cast is exact
AsF64(v) == v

RECURSIVE Concat(_)
\* the concatenation of a sequence of sequences, in order
\* (halving keeps the evaluation shallow for long lists)
Concat(ss) ==
    IF ss = << >> THEN << >>
    ELSE IF Len(ss) = 1 THEN ss[1]
    ELSE LET h == Len(ss) \div 2
         IN  Concat(SubSeq(ss, 1, h)) \o Concat(SubSeq(ss, h + 1, Len(ss)))

RECURSIVE Sum(_)
Sum(s) == IF s = << >> THEN 0 ELSE Head(s) + Sum(Tail(s))

(***************************************************************************)
(* services/datadog/models.rs                                              *)
(***************************************************************************)
\* a faulty order of the base tags: the source tag comes first
standard_tags_SourceFirst(date) == << "source:github-copilot-metrics", "date:" \o date >>

\* standard_tags: vec![format!("date:{}", date), "source:github-copilot-metrics"]
standard_tags(date) == << "date:" \o date, "source:github-copilot-metrics" >>

MetricPoint(name, value, timestamp, tags) ==
    [name |-> name, value |-> value, timestamp |-> timestamp, tags |-> tags]

\* MetricSeries::add_point on the points vector
add_point(points, point) == Append(points, point)

\* MetricSeries::add_optional_i64_point: a point only for Some(val)
add_optional_i64_point(points, name, value, timestamp, tags) ==
    IF IsSome(value)
        THEN add_point(points, MetricPoint(name, AsF64(value[1]), timestamp, tags))
        ELSE points

\* MetricPoint::to_json
PointToJson(p) ==
    [metric |-> p.name,
     type   |-> "GAUGE",
     points |-> << [timestamp |-> p.timestamp, value |-> p.value] >>,
     tags   |-> p.tags]

\* MetricSeries::to_json
SeriesToJson(points) == [i \in 1..Len(points) |-> PointToJson(points[i])]

\* a faulty merge: the source's points are cloned, not taken, and the target's
\* points end up after them
merge_series_ClonesInFront(target, source) ==
    [target |-> source \o target, source |-> source]

\* DatadogClient::merge_series: the source's points are appended to the
\* target in their order and the source is left empty (std::mem::take)
merge_series(target, source) ==
    [target |-> target \o source, source |-> << >>]

IsCustomTag(model) ==
    "is_custom_model:" \o (IF model.is_custom_model THEN "true" ELSE "false")

(***************************************************************************)
(* services/datadog/client.rs: the feature sub-flatteners                   *)
(***************************************************************************)
LanguagePoints(prefix, language, base_tags, timestamp) ==
    LET lang_tags == Append(base_tags, "language:" \o language.name)
        p0 == add_point(<< >>,
                 MetricPoint(prefix \o ".languages.total_engaged_users",
                             AsF64(language.total_engaged_users), timestamp, lang_tags))
        p1 == add_optional_i64_point(p0, prefix \o ".languages.total_code_suggestions",
                 language.total_code_suggestions, timestamp, lang_tags)
        p2 == add_optional_i64_point(p1, prefix \o ".languages.total_code_acceptances",
                 language.total_code_acceptances, timestamp, lang_tags)
        p3 == add_optional_i64_point(p2, prefix \o ".languages.total_code_lines_suggested",
                 language.total_code_lines_suggested, timestamp, lang_tags)
    IN  add_optional_i64_point(p3, prefix \o ".languages.total_code_lines_accepted",
                 language.total_code_lines_accepted, timestamp, lang_tags)

EditorPoint(prefix, editor, base_tags, timestamp) ==
    MetricPoint(prefix \o ".editors.total_engaged_users",
                AsF64(editor.total_engaged_users), timestamp,
                Append(base_tags, "editor:" \o editor.name))

prepare_ide_code_completions_metrics(completions, namespace, date, timestamp) ==
    LET prefix    == namespace \o ".ide.code_completions"
        base_tags == standard_tags(date)
        languages == ItemsOf(completions.languages)
        editors   == ItemsOf(completions.editors)
    IN  << MetricPoint(prefix \o ".total_engaged_users",
                       AsF64(completions.total_engaged_users), timestamp, base_tags) >>
        \o Concat([i \in 1..Len(languages) |->
                     LanguagePoints(prefix, languages[i], base_tags, timestamp)])
        \o [i \in 1..Len(editors) |->
                     EditorPoint(prefix, editors[i], base_tags, timestamp)]

\* faulty totals: each editor's sums overwrite the totals instead of adding
\* to them, so the totals are those of the last editor
calculate_ide_chat_totals_LastEditor(ide_chat) ==
    LET editors == ItemsOf(ide_chat.editors)
        last    == IF editors = << >> THEN << >> ELSE ItemsOf(editors[Len(editors)].models)
    IN  [total_chats      |-> Sum([m \in 1..Len(last) |-> UnwrapOr(last[m].total_chats, 0)]),
         total_copies     |-> Sum([m \in 1..Len(last) |->
                                     UnwrapOr(last[m].total_chat_copy_events, 0)]),
         total_insertions |-> Sum([m \in 1..Len(last) |->
                                     UnwrapOr(last[m].total_chat_insertion_events, 0)])]

\* DatadogClient::calculate_ide_chat_totals
calculate_ide_chat_totals(ide_chat) ==
    LET editors == ItemsOf(ide_chat.editors)
        ModelsOf(e) == ItemsOf(editors[e].models)
        Over(field(_)) ==
            Sum([e \in 1..Len(editors) |->
                   Sum([m \in 1..Len(ModelsOf(e)) |-> UnwrapOr(field(ModelsOf(e)[m]), 0)])])
        Chats(m)      == m.total_chats
        Copies(m)     == m.total_chat_copy_events
        Insertions(m) == m.total_chat_insertion_events
    IN  [total_chats      |-> Over(Chats),
         total_copies     |-> Over(Copies),
         total_insertions |-> Over(Insertions)]

\* one model nested in an editor of the in-editor chat block
IdeChatModelPoints(prefix, model, editor_tags, timestamp) ==
    LET model_tags == Append(Append(editor_tags, "model:" \o model.name), IsCustomTag(model))
        p0 == add_point(<< >>,
                 MetricPoint(prefix \o ".editors.models.total_engaged_users",
                             AsF64(model.total_engaged_users), timestamp, model_tags))
    IN  add_optional_i64_point(p0, prefix \o ".editors.models.total_pr_summaries_created",
                 model.total_pr_summaries_created, timestamp, model_tags)

\* a faulty editor loop: the model points are tagged from the base tags, so
\* they lose the tag of the editor they are nested in
IdeChatEditorPoints_ModelsLoseEditor(prefix, editor, base_tags, timestamp) ==
    LET editor_tags == Append(base_tags, "editor:" \o editor.name)
        models      == ItemsOf(editor.models)
    IN  << MetricPoint(prefix \o ".editors.total_engaged_users",
                       AsF64(editor.total_engaged_users), timestamp, editor_tags) >>
        \o Concat([m \in 1..Len(models) |->
                     IdeChatModelPoints(prefix, models[m], base_tags, timestamp)])

\* one editor of the in-editor chat block and the models nested in it
IdeChatEditorPoints(prefix, editor, base_tags, timestamp) ==
    LET editor_tags == Append(base_tags, "editor:" \o editor.name)
        models      == ItemsOf(editor.models)
    IN  << MetricPoint(prefix \o ".editors.total_engaged_users",
                       AsF64(editor.total_engaged_users), timestamp, editor_tags) >>
        \o Concat([m \in 1..Len(models) |->
                     IdeChatModelPoints(prefix, models[m], editor_tags, timestamp)])

\* faulty P7S1 points: an unset DATADOG_NAMESPACE_P7S1 falls back to a
\* default namespace instead of leaving the points out
P7s1Points_DefaultNamespace(p7s1, totals, base_tags, timestamp) ==
    << MetricPoint(UnwrapOr(p7s1, "p7s1") \o ".copilot_ide_chat.total_chats",
                   AsF64(totals.total_chats), timestamp, base_tags),
       MetricPoint(UnwrapOr(p7s1, "p7s1") \o ".copilot_ide_chat.total_chat_copy_events",
                   AsF64(totals.total_copies), timestamp, base_tags),
       MetricPoint(UnwrapOr(p7s1, "p7s1") \o ".copilot_ide_chat.total_chat_insertion_events",
                   AsF64(totals.total_insertions), timestamp, base_tags) >>

\* the P7S1 points: only when DATADOG_NAMESPACE_P7S1 is set (p7s1 = Some(ns))
P7s1Points(p7s1, totals, base_tags, timestamp) ==
    IF IsSome(p7s1)
        THEN << MetricPoint(p7s1[1] \o ".copilot_ide_chat.total_chats",
                            AsF64(totals.total_chats), timestamp, base_tags),
                MetricPoint(p7s1[1] \o ".copilot_ide_chat.total_chat_copy_events",
                            AsF64(totals.total_copies), timestamp, base_tags),
                MetricPoint(p7s1[1] \o ".copilot_ide_chat.total_chat_insertion_events",
                            AsF64(totals.total_insertions), timestamp, base_tags) >>
        ELSE << >>

\* a faulty rollup: the P7S1 points are named under the namespace of the
\* scope, like the other points of the block
prepare_ide_chat_metrics_RollupUnderScope(ide_chat, namespace, date, timestamp, p7s1) ==
    LET prefix    == namespace \o ".ide.chat"
        base_tags == standard_tags(date)
        totals    == calculate_ide_chat_totals(ide_chat)
        editors   == ItemsOf(ide_chat.editors)
    IN  << MetricPoint(prefix \o ".total_engaged_users",
                       AsF64(ide_chat.total_engaged_users), timestamp, base_tags) >>
        \o Concat([e \in 1..Len(editors) |->
                     IdeChatEditorPoints(prefix, editors[e], base_tags, timestamp)])
        \o P7s1Points(IF IsSome(p7s1) THEN Some(namespace \o "." \o p7s1[1]) ELSE None,
                      totals, base_tags, timestamp)

\* DatadogClient::prepare_ide_chat_metrics
prepare_ide_chat_metrics(ide_chat, namespace, date, timestamp, p7s1) ==
    LET prefix    == namespace \o ".ide.chat"
        base_tags == standard_tags(date)
        totals    == calculate_ide_chat_totals(ide_chat)
        editors   == ItemsOf(ide_chat.editors)
    IN  << MetricPoint(prefix \o ".total_engaged_users",
                       AsF64(ide_chat.total_engaged_users), timestamp, base_tags) >>
        \o Concat([e \in 1..Len(editors) |->
                     IdeChatEditorPoints(prefix, editors[e], base_tags, timestamp)])
        \o P7s1Points(p7s1, totals, base_tags, timestamp)

DotcomChatModelPoints(prefix, model, base_tags, timestamp) ==
    LET model_tags == Append(Append(base_tags, "model:" \o model.name), IsCustomTag(model))
        p0 == add_point(<< >>,
                 MetricPoint(prefix \o ".models.total_engaged_users",
                             AsF64(model.total_engaged_users), timestamp, model_tags))
    IN  add_optional_i64_point(p0, prefix \o ".models.total_chats",
                 model.total_chats, timestamp, model_tags)

prepare_dotcom_chat_metrics(chat, namespace, date, timestamp) ==
    LET prefix    == namespace \o ".dotcom.chat"
        base_tags == standard_tags(date)
        models    == ItemsOf(chat.models)
    IN  << MetricPoint(prefix \o ".total_engaged_users",
                       AsF64(chat.total_engaged_users), timestamp, base_tags) >>
        \o Concat([m \in 1..Len(models) |->
                     DotcomChatModelPoints(prefix, models[m], base_tags, timestamp)])

PrModelPoints(prefix, model, repo_tags, timestamp) ==
    LET model_tags == Append(Append(repo_tags, "model:" \o model.name), IsCustomTag(model))
        p0 == add_point(<< >>,
                 MetricPoint(prefix \o ".repositories.models.total_engaged_users",
                             AsF64(model.total_engaged_users), timestamp, model_tags))
    IN  add_optional_i64_point(p0, prefix \o ".repositories.models.total_pr_summaries_created",
                 model.total_pr_summaries_created, timestamp, model_tags)

PrRepositoryPoints(prefix, repo, base_tags, timestamp) ==
    LET repo_tags == Append(base_tags, "repository:" \o repo.name)
    IN  << MetricPoint(prefix \o ".repositories.total_engaged_users",
                       AsF64(repo.total_engaged_users), timestamp, repo_tags) >>
        \o Concat([m \in 1..Len(repo.models) |->
                     PrModelPoints(prefix, repo.models[m], repo_tags, timestamp)])

prepare_dotcom_pr_metrics(pr, namespace, date, timestamp) ==
    LET prefix       == namespace \o ".dotcom.pull_requests"
        base_tags    == standard_tags(date)
        repositories == ItemsOf(pr.repositories)
    IN  << MetricPoint(prefix \o ".total_engaged_users",
                       AsF64(pr.total_engaged_users), timestamp, base_tags) >>
        \o Concat([r \in 1..Len(repositories) |->
                     PrRepositoryPoints(prefix, repositories[r], base_tags, timestamp)])

(***************************************************************************)
(* services/datadog/client.rs: prepare_all_metrics                          *)
(***************************************************************************)
\* a faulty pair of core points: an absent count has no point instead of a
\* zero-valued one
CorePoints_SkipsAbsent(metric, namespace, timestamp, base_tags) ==
    add_optional_i64_point(
        add_optional_i64_point(<< >>, namespace \o ".total_active_users",
                               metric.total_active_users, timestamp, base_tags),
        namespace \o ".total_engaged_users", metric.total_engaged_users,
        timestamp, base_tags)

\* the core points (active and engaged users) of one snapshot
CorePoints(metric, namespace, timestamp, base_tags) ==
    << MetricPoint(namespace \o ".total_active_users",
                   AsF64(UnwrapOr(metric.total_active_users, 0)),
                   timestamp, base_tags),
       MetricPoint(namespace \o ".total_engaged_users",
                   AsF64(UnwrapOr(metric.total_engaged_users, 0)),
                   timestamp, base_tags) >>

\* the points of one snapshot: the loop body of prepare_all_metrics
SnapshotPoints(metric, namespace, timestamp, p7s1) ==
    LET date      == metric.date
        base_tags == standard_tags(date)
        core == CorePoints(metric, namespace, timestamp, base_tags)
        m1 == IF IsSome(metric.copilot_ide_code_completions)
                THEN merge_series(core,
                        prepare_ide_code_completions_metrics(
                            metric.copilot_ide_code_completions[1],
                            namespace, date, timestamp)).target
                ELSE core
        m2 == IF IsSome(metric.copilot_ide_chat)
                THEN merge_series(m1,
                        prepare_ide_chat_metrics(metric.copilot_ide_chat[1],
                            namespace, date, timestamp, p7s1)).target
                ELSE m1
        m3 == IF IsSome(metric.copilot_dotcom_chat)
                THEN merge_series(m2,
                        prepare_dotcom_chat_metrics(metric.copilot_dotcom_chat[1],
                            namespace, date, timestamp)).target
                ELSE m2
    IN  IF IsSome(metric.copilot_dotcom_pull_requests)
            THEN merge_series(m3,
                    prepare_dotcom_pr_metrics(metric.copilot_dotcom_pull_requests[1],
                        namespace, date, timestamp)).target
            ELSE m3

\* a faulty accumulation: each snapshot's points are put in front of those
\* accumulated so far, so the series runs from the last snapshot to the first
prepare_all_metrics_NewestFirst(metrics, namespace, timestamp, p7s1) ==
    SeriesToJson(Concat([i \in 1..Len(metrics) |->
                           SnapshotPoints(metrics[Len(metrics) + 1 - i], namespace,
                                          timestamp, p7s1)]))

\* Vec<Value> of the whole snapshot list, in list order
prepare_all_metrics(metrics, namespace, timestamp, p7s1) ==
    SeriesToJson(Concat([i \in 1..Len(metrics) |->
                           SnapshotPoints(metrics[i], namespace, timestamp, p7s1)]))

(***************************************************************************)
(* DatadogClient::send_metrics: all_series.chunks(100)                      *)
(***************************************************************************)
\* a faulty count: the chunks of chunks_exact, which leaves the remainder out
NumChunks_Exact(s, size) == Len(s) \div size

NumChunks(s, size) == (Len(s) + size - 1) \div size

\* slice::chunks: contiguous slices of `size` elements, the last one shorter
\* when the length is no multiple of `size`; no chunk at all for an empty slice
\* a faulty slicing: every chunk after the first starts one element early
Chunks_Overlapping(s, size) ==
    [k \in 1..NumChunks(s, size) |->
        SubSeq(s, IF k = 1 THEN 1 ELSE (k - 1) * size,
                  IF k * size < Len(s) THEN k * size ELSE Len(s))]

Chunks(s, size) ==
    [k \in 1..NumChunks(s, size) |->
        SubSeq(s, (k - 1) * size + 1, IF k * size < Len(s) THEN k * size ELSE Len(s))]

(***************************************************************************)
(* Inputs: the snapshot lists the GitHub API returns                        *)
(***************************************************************************)
DateOf(i) == "2024-01-" \o (IF i < 10 THEN "0" ELSE "") \o ToString(i)

\* a snapshot without feature blocks; the optional counts are absent on some days
PlainSnapshot(i) ==
    [date |-> DateOf(i),
     total_active_users  |-> IF i % 3 = 0 THEN None ELSE Some(100 + i),
     total_engaged_users |-> IF i % 2 = 0 THEN None ELSE Some(80 + i),
     copilot_ide_code_completions |-> None,
     copilot_ide_chat             |-> None,
     copilot_dotcom_chat          |-> None,
     copilot_dotcom_pull_requests |-> None]

Model(name, custom, engaged, chats, insertions, copies, summaries) ==
    [name |-> name, is_custom_model |-> custom, total_engaged_users |-> engaged,
     total_chats |-> chats, total_chat_insertion_events |-> insertions,
     total_chat_copy_events |-> copies, total_pr_summaries_created |-> summaries]

\* a snapshot with the four feature blocks (the shape of create_chat_metrics
\* and create_test_metrics of the test helpers)
RichSnapshot ==
    [date |-> "2023-03-01",
     total_active_users  |-> Some(1000),
     total_engaged_users |-> Some(800),
     copilot_ide_code_completions |-> Some(
        [total_engaged_users |-> 600,
         languages |-> Some(<< [name |-> "Rust", total_engaged_users |-> 300,
                                total_code_suggestions     |-> Some(5000),
                                total_code_acceptances     |-> None,
                                total_code_lines_suggested |-> Some(10000),
                                total_code_lines_accepted  |-> Some(0)] >>),
         editors   |-> Some(<< [name |-> "VS Code", total_engaged_users |-> 550,
                                models |-> None] >>)]),
     copilot_ide_chat |-> Some(
        [total_engaged_users |-> 400,
         editors |-> Some(<<
            [name |-> "vscode", total_engaged_users |-> 13,
             models |-> Some(<<
                Model("default", FALSE, 12, Some(137), Some(39), Some(44), None),
                Model("a-custom-model", TRUE, 5, Some(298), None, None, Some(3)) >>)],
            [name |-> "jetbrains", total_engaged_users |-> 7,
             models |-> Some(<<
                Model("default", FALSE, 6, Some(44), None, None, None),
                Model("gpt-4", FALSE, 2, Some(51), None, None, None) >>)],
            [name |-> "vim", total_engaged_users |-> 1, models |-> None] >>)]),
     copilot_dotcom_chat |-> Some(
        [total_engaged_users |-> 300,
         models |-> Some(<<
            Model("GPT-4", FALSE, 290, Some(500), Some(300), Some(200), None),
            Model("o1", FALSE, 3, None, None, None, None) >>)]),
     copilot_dotcom_pull_requests |-> Some(
        [total_engaged_users |-> 200,
         repositories |-> Some(<<
            [name |-> "test-repo", total_engaged_users |-> 180,
             models |-> << Model("GPT-4", FALSE, 170, None, None, None, Some(50)) >>],
            [name |-> "demo", total_engaged_users |-> 4,
             models |-> << Model("GPT-4", TRUE, 4, None, None, None, None) >>] >>)])]

\* a snapshot whose four feature blocks carry no breakdown list at all
SparseSnapshot ==
    [date |-> "2023-03-02",
     total_active_users  |-> None,
     total_engaged_users |-> Some(5),
     copilot_ide_code_completions |-> Some(
        [total_engaged_users |-> 3, languages |-> None, editors |-> None]),
     copilot_ide_chat |-> Some([total_engaged_users |-> 2, editors |-> None]),
     copilot_dotcom_chat |-> Some([total_engaged_users |-> 1, models |-> None]),
     copilot_dotcom_pull_requests |-> Some(
        [total_engaged_users |-> 0, repositories |-> None])]

\* the snapshot of another day with every feature block but the in-editor chat
NoChatSnapshot ==
    [RichSnapshot EXCEPT !.date = "2023-03-03", !.copilot_ide_chat = None]

\* handler.rs: the mock snapshot built when MOCK_GITHUB_API is set
MockMetric(active, engaged) ==
    [date |-> "2024-05-01",
     total_active_users  |-> Some(active),
     total_engaged_users |-> Some(engaged),
     copilot_ide_code_completions |-> None,
     copilot_ide_chat             |-> None,
     copilot_dotcom_chat          |-> None,
     copilot_dotcom_pull_requests |-> None]

\* a snapshot list is named by a small record, so that the history keeps the
\* name and not the list
Plain(n)  == [kind |-> "plain", n |-> n]
Rich      == [kind |-> "rich", n |-> 1]
MockRoot  == [kind |-> "mock_root", n |-> 1]
MockTeam  == [kind |-> "mock_team", n |-> 1]
NoList    == [kind |-> "none", n |-> 0]
Sparse    == [kind |-> "sparse", n |-> 1]
NoChat    == [kind |-> "nochat", n |-> 1]
Mixed     == [kind |-> "mixed", n |-> 4]

MetricsOf(id) ==
    CASE id.kind = "plain"     -> [i \in 1..id.n |-> PlainSnapshot(i)]
      [] id.kind = "rich"      -> << RichSnapshot >>
      [] id.kind = "mock_root" -> << MockMetric(100, 80) >>
      [] id.kind = "mock_team" -> << MockMetric(50, 40) >>
      [] id.kind = "sparse"    -> << SparseSnapshot >>
      [] id.kind = "nochat"    -> << NoChatSnapshot >>
      [] id.kind = "mixed"     -> << SparseSnapshot, RichSnapshot, NoChatSnapshot,
                                   PlainSnapshot(4) >>
      [] OTHER                 -> << >>

\* what get_enterprise_metrics / get_team_metrics return to main.rs
MainLists == {Plain(0), Plain(TwoChunkSnapshots)}
\* what get_github_metrics / get_github_team_metrics return to handler.rs
HandlerLists == {Plain(0), Plain(MaxHandlerSnapshots)}
\* the slices a direct caller hands to DatadogClient::send_metrics
DirectLists == {Plain(0), Plain(1), Plain(FullChunkSnapshots), Plain(TwoChunkSnapshots),
                Plain(ThreeChunkSnapshots), Rich, Sparse, NoChat, Mixed}

\* GitHubError variants a fetch fails with
FetchErrors == {"NotFound", "Network"}
\* DatadogError variants send_metrics_chunk fails with
SubmitErrors == {"Network", "HttpError"}
\* SystemTime::now() as seconds since the epoch
Timestamps == {1714521600}

(***************************************************************************)
(* The environment variables                                               *)
(***************************************************************************)
EnvNames == {"GITHUB_TOKEN", "GITHUB_ENTERPRISE_ID", "DATADOG_API_KEY",
             "DATADOG_METRIC_NAMESPACE", "DATADOG_PREFIX",
             "SKIP_ENTERPRISE_METRICS", "PROCESS_ONLY_TEAMS", "MOCK_GITHUB_API",
             "GITHUB_TEAM_SLUGS", "DATADOG_NAMESPACE_P7S1"}

\* env::var(name).is_ok()
IsSet(e, name) == IsSome(e[name])

\* a string as its sequence of characters, for split and trim
RECURSIVE Str(_)
Str(chars) == IF chars = << >> THEN "" ELSE Head(chars) \o Str(Tail(chars))

RECURSIVE SplitComma(_)
\* str::split(','): the pieces between the commas; one empty piece for ""
SplitComma(s) ==
    IF \E k \in 1..Len(s) : s[k] = ","
        THEN LET k == CHOOSE i \in 1..Len(s) : s[i] = "," /\ \A h \in 1..(i - 1) : s[h] # ","
             IN  << SubSeq(s, 1, k - 1) >> \o SplitComma(SubSeq(s, k + 1, Len(s)))
        ELSE << s >>

RECURSIVE TrimStart(_)
TrimStart(s) == IF s # << >> /\ Head(s) = " " THEN TrimStart(Tail(s)) ELSE s
RECURSIVE TrimEnd(_)
TrimEnd(s) == IF s # << >> /\ s[Len(s)] = " " THEN TrimEnd(SubSeq(s, 1, Len(s) - 1)) ELSE s
\* str::trim
Trim(s) == TrimEnd(TrimStart(s))

\* a faulty order of the adapters: the empty pieces are dropped before the
\* trim, so a piece of blanks survives as an empty slug
ParseSlugs_FiltersBeforeTrim(raw) ==
    LET pieces == SplitComma(raw)
        kept   == SelectSeq(pieces, LAMBDA p : p # << >>)
    IN  [i \in 1..Len(kept) |-> Str(Trim(kept[i]))]

\* slugs.split(',').map(|s| s.trim()).filter(|s| !s.is_empty()).collect()
ParseSlugs(raw) ==
    LET pieces  == SplitComma(raw)
        trimmed == [i \in 1..Len(pieces) |-> Trim(pieces[i])]
        kept    == SelectSeq(trimmed, LAMBDA p : p # << >>)
    IN  [i \in 1..Len(kept) |-> Str(kept[i])]

\* a faulty format string: "{}.team" leaves the slug out
TeamNamespace_DropsSlug(namespace, team_slug) == namespace \o ".team"

\* a faulty call: the root namespace is passed on instead of the sub-group's
TeamNamespace_RootNamespace(namespace, team_slug) == namespace

\* format!("{}.team.{}", datadog_namespace, team_slug)
TeamNamespace(namespace, team_slug) == namespace \o ".team." \o team_slug

\* the team slugs the runs are configured with: prefixes of this list
TeamPool == << <<"o", "p", "s">>, <<"a", "i">>, <<"q", "a">>, <<"w", "e", "b">> >>

RECURSIVE JoinComma(_)
JoinComma(list) ==
    IF list = << >> THEN << >>
    ELSE IF Len(list) = 1 THEN Head(list)
    ELSE Head(list) \o << "," >> \o JoinComma(Tail(list))

\* the values of GITHUB_TEAM_SLUGS: unset, "", " , ", " ops , ," and
\* "ops", "ops,ai", ... up to MaxTeams slugs
RawTeamValues ==
    {None, Some(<< >>), Some(<< " ", ",", " " >>),
     Some(<< " " >> \o TeamPool[1] \o << " ", ",", " ", "," >>)}
    \cup {Some(JoinComma(SubSeq(TeamPool, 1, k))) : k \in 1..MaxTeams}

LongestTeams == Some(JoinComma(SubSeq(TeamPool, 1, MaxTeams)))

Flag(b) == IF b THEN Some("true") ELSE None

\* the variables each handler requires, in the order it reads them
RequiredMain    == << "GITHUB_TOKEN", "GITHUB_ENTERPRISE_ID", "DATADOG_API_KEY" >>
RequiredHandler == << "GITHUB_TOKEN", "GITHUB_ENTERPRISE_ID", "DATADOG_API_KEY",
                      "DATADOG_PREFIX" >>

Range(f) == {f[i] : i \in DOMAIN f}

MkEnv(present, skip, only_teams, mock, raw, p7s1) ==
    [n \in EnvNames |->
        CASE n = "GITHUB_TOKEN"             -> Flag(n \in present)
          [] n = "GITHUB_ENTERPRISE_ID"     -> Flag(n \in present)
          [] n = "DATADOG_API_KEY"          -> Flag(n \in present)
          [] n = "DATADOG_METRIC_NAMESPACE" -> IF n \in present THEN Some("acme.copilot") ELSE None
          [] n = "DATADOG_PREFIX"           -> IF n \in present THEN Some("test.prefix") ELSE None
          [] n = "SKIP_ENTERPRISE_METRICS"  -> Flag(skip)
          [] n = "PROCESS_ONLY_TEAMS"       -> Flag(only_teams)
          [] n = "MOCK_GITHUB_API"          -> Flag(mock)
          [] n = "GITHUB_TEAM_SLUGS"        -> raw
          [] n = "DATADOG_NAMESPACE_P7S1"   -> p7s1]

\* the environments main.rs is started in
MainEnvs ==
    LET all == Range(RequiredMain) \cup {"DATADOG_METRIC_NAMESPACE"}
    IN  {MkEnv(all, skip, FALSE, mock, raw, None) :
            skip \in BOOLEAN, mock \in BOOLEAN, raw \in RawTeamValues}
        \cup {MkEnv(present, FALSE, FALSE, mock, LongestTeams, None) :
            present \in SUBSET all, mock \in BOOLEAN}

\* the environments handler.rs is started in
HandlerEnvs ==
    LET all == Range(RequiredHandler)
    IN  {MkEnv(all, skip, only_teams, mock, raw, None) :
            skip \in BOOLEAN, only_teams \in BOOLEAN, mock \in BOOLEAN,
            raw \in RawTeamValues}
        \cup {MkEnv(present, FALSE, FALSE, mock, LongestTeams, None) :
            present \in SUBSET all, mock \in BOOLEAN}

\* the environments of a direct DatadogClient::send_metrics call
DirectEnvs ==
    {MkEnv({}, FALSE, FALSE, mock, None, p7s1) :
        mock \in BOOLEAN, p7s1 \in {None, Some("gh.p7s1")}}

DirectNamespace == "github.copilot"
\* the namespaces send_metrics is called with: that of the root scope and
\* that of a sub-group
DirectNamespaces == {DirectNamespace, TeamNamespace(DirectNamespace, "ops")}

Entries == {"main", "handler", "send"}

EnvsOf(e) ==
    CASE e = "main"    -> MainEnvs
      [] e = "handler" -> HandlerEnvs
      [] OTHER         -> DirectEnvs

(***************************************************************************)
(* Results                                                                 *)
(***************************************************************************)
OkResult == [ok |-> TRUE, kind |-> "", variant |-> "", count |-> 0]
\* a faulty classification: the failed fetch is reported as a transport error
FetchError_AsDispatch(variant) ==
    [ok |-> FALSE, kind |-> "dispatch", variant |-> variant, count |-> 0]

\* GitHubError from a fetch (wrapped by anyhow! in the processors)
FetchError(variant) == [ok |-> FALSE, kind |-> "fetch", variant |-> variant, count |-> 0]
\* a faulty outcome of an empty snapshot list: reported as a failed fetch
EmptyMetricsResult_IsError == [ok |-> FALSE, kind |-> "fetch", variant |-> "NotFound",
                               count |-> 0]

\* the outcome of a scope whose fetch returned no snapshot:
\* `if metrics.is_empty() { ...; return Ok(()) }`
EmptyMetricsResult == OkResult

\* a faulty conversion: every transport error is returned as a Network error
DispatchError_AlwaysNetwork(variant) ==
    [ok |-> FALSE, kind |-> "dispatch", variant |-> "Network", count |-> 0]

\* DatadogError from send_metrics
DispatchError(variant) == [ok |-> FALSE, kind |-> "dispatch", variant |-> variant, count |-> 0]
\* anyhow!("Failed to process {} teams", error_count)
AggregateError(n) == [ok |-> FALSE, kind |-> "aggregate", variant |-> "", count |-> n]
\* "<NAME> environment variable not set"
ConfigError(name) == [ok |-> FALSE, kind |-> "config", variant |-> name, count |-> 0]

\* Ok(json!({"statusCode": 200, "message": ..}))
OkResponse(message) ==
    [ok |-> TRUE, statusCode |-> 200, message |-> message, error |-> OkResult]
ErrResponse(e) ==
    [ok |-> FALSE, statusCode |-> 0, message |-> "", error |-> e]

\* a faulty check: all the variables are read first and the error of the one
\* read last wins
FirstMissing_LastWins(e, names) ==
    LET unset == {i \in DOMAIN names : ~IsSet(e, names[i])}
    IN  IF unset = {} THEN ""
        ELSE names[CHOOSE i \in unset : \A h \in unset : h <= i]

\* the first required variable that is not set, or "" when all are set
RECURSIVE FirstMissing(_, _)
FirstMissing(e, names) ==
    IF names = << >> THEN ""
    ELSE IF ~IsSet(e, Head(names)) THEN Head(names)
    ELSE FirstMissing(e, Tail(names))

(***************************************************************************)
(* The history of calls to the two collaborators                           *)
(***************************************************************************)
RootScope == 0
DirectScope == -1

\* a call of the fetch collaborator for a scope (0: enterprise, i: i-th team)
FetchEvent(scope, ok, variant, id) ==
    [op |-> "fetch", scope |-> scope, ok |-> ok, variant |-> variant,
     list |-> id, call |-> 0, chunk |-> 0, n |-> 0]
\* handler.rs builds the mock snapshot instead of fetching
InjectEvent(scope, id) ==
    [op |-> "inject", scope |-> scope, ok |-> TRUE, variant |-> "",
     list |-> id, call |-> 0, chunk |-> 0, n |-> 0]
\* a call of send_metrics_chunk: chunk number `chunk` (from 1) of send_metrics
\* call number `call`, carrying n series
SubmitEvent(scope, call, chunk, n, ok, variant) ==
    [op |-> "submit", scope |-> scope, ok |-> ok, variant |-> variant,
     list |-> NoList, call |-> call, chunk |-> chunk, n |-> n]

(***************************************************************************)
(* State                                                                   *)
(***************************************************************************)
VARIABLES
    entry,          \* which entry point runs: "main", "handler" or "send"
    env,            \* the environment variables: name -> Option value
    pc,             \* position of the handler
    namespace,      \* datadog_namespace
    team_slugs,     \* Option<Vec<String>>: the parsed GITHUB_TEAM_SLUGS
    idx,            \* index of the team being processed (from 1)
    cur,            \* name of the snapshot list held by the current scope
    j,              \* handler.rs: index of the snapshot being sent (from 1)
    success_count,  \* process_all_teams
    error_count,    \* process_all_teams
    rootResult,     \* Option: what the enterprise phase returned
    teamResults,    \* what process_team_metrics returned, per processed team
    teamsResult,    \* Option: what the team phase returned
    teamErr,        \* handler.rs: Option of the first error met for the current team
    response,       \* Option: what the entry point returned
    sendpc,         \* send_metrics: "idle", "chunks" or "ret"
    sendScope,      \* scope the running send_metrics call works for
    series,         \* send_metrics: all_series
    chunkIdx,       \* send_metrics: number of chunks submitted so far
    sent,           \* send_metrics: the chunks accepted by the transport
    sendResult,     \* send_metrics: Option of the returned result
    calls,          \* number of send_metrics calls that ran prepare_all_metrics
    log,            \* history of fetch, inject and submit calls
    failures        \* number of failures the environment has produced

vars == << entry, env, pc, namespace, team_slugs, idx, cur, j, success_count,
           error_count, rootResult, teamResults, teamsResult, teamErr, response,
           sendpc, sendScope, series, chunkIdx, sent, sendResult, calls, log, failures >>

sendVars == << sendpc, sendScope, series, chunkIdx, sent, sendResult, calls >>
teamVars == << idx, success_count, error_count, teamResults, teamsResult, teamErr >>

Mock == IsSet(env, "MOCK_GITHUB_API")
SkipEnterprise == IsSet(env, "SKIP_ENTERPRISE_METRICS")
ProcessOnlyTeams == IsSet(env, "PROCESS_ONLY_TEAMS")
CanFail == failures < MaxFailures
Slugs == UnwrapOr(team_slugs, << >>)

Init ==
    /\ entry \in Entries
    /\ env \in EnvsOf(entry)
    /\ pc = "start"
    /\ namespace = ""
    /\ team_slugs = None
    /\ idx = 0
    /\ cur = NoList
    /\ j = 0
    /\ success_count = 0
    /\ error_count = 0
    /\ rootResult = None
    /\ teamResults = << >>
    /\ teamsResult = None
    /\ teamErr = None
    /\ response = None
    /\ sendpc = "idle"
    /\ sendScope = RootScope
    /\ series = << >>
    /\ chunkIdx = 0
    /\ sent = << >>
    /\ sendResult = None
    /\ calls = 0
    /\ log = << >>
    /\ failures = 0

(***************************************************************************)
(* DatadogClient::send_metrics                                             *)
(***************************************************************************)
\* the call, up to the first send_metrics_chunk: the test-mode return, the
\* timestamp, prepare_all_metrics
SendMetricsCall(metrics, ns, scope) ==
    /\ sendpc = "idle"
    /\ sendScope' = scope
    /\ chunkIdx' = 0
    /\ sent' = << >>
    /\ IF Mock
         THEN \* "Test mode: Skipping sending metrics to Datadog"
              /\ sendpc' = "ret"
              /\ sendResult' = Some(OkResult)
              /\ series' = << >>
              /\ calls' = calls
              /\ failures' = failures
         ELSE \/ \* current_timestamp fails: the clock is before the epoch
                 /\ CanFail
                 /\ failures' = failures + 1
                 /\ sendpc' = "ret"
                 /\ sendResult' = Some(DispatchError("TimeError"))
                 /\ series' = << >>
                 /\ calls' = calls
              \/ \E timestamp \in Timestamps :
                    LET all_series == prepare_all_metrics(metrics, ns, timestamp,
                                          env["DATADOG_NAMESPACE_P7S1"])
                    IN  /\ series' = all_series
                        /\ calls' = calls + 1
                        /\ failures' = failures
                        /\ IF Chunks(all_series, ChunkSize) = << >>
                             THEN sendpc' = "ret" /\ sendResult' = Some(OkResult)
                             ELSE sendpc' = "chunks" /\ sendResult' = None

\* one iteration of `for (i, chunk) in all_series.chunks(100).enumerate()`:
\* send_metrics_chunk(chunk)?; after the last chunk send_metrics returns Ok
\* a faulty loop: the error of send_metrics_chunk is kept but the loop goes
\* on with the chunks that are left
SubmitChunk_KeepsGoing ==
    /\ sendpc = "chunks"
    /\ LET chunks == Chunks(series, ChunkSize)
           k      == chunkIdx + 1
       IN  /\ k <= Len(chunks)
           /\ \/ /\ log' = Append(log, SubmitEvent(sendScope, calls, k, Len(chunks[k]), TRUE, ""))
                 /\ sent' = Append(sent, chunks[k])
                 /\ chunkIdx' = k
                 /\ failures' = failures
                 /\ IF k = Len(chunks)
                      THEN sendpc' = "ret" /\ sendResult' = Some(UnwrapOr(sendResult, OkResult))
                      ELSE sendpc' = "chunks" /\ sendResult' = sendResult
              \/ \E variant \in SubmitErrors :
                    /\ CanFail
                    /\ failures' = failures + 1
                    /\ log' = Append(log, SubmitEvent(sendScope, calls, k, Len(chunks[k]), FALSE, variant))
                    /\ sent' = sent
                    /\ chunkIdx' = k
                    /\ sendpc' = IF k = Len(chunks) THEN "ret" ELSE "chunks"
                    /\ sendResult' = Some(DispatchError(variant))
    /\ UNCHANGED << entry, env, pc, namespace, team_slugs, idx, cur, j, success_count,
                    error_count, rootResult, teamResults, teamsResult, teamErr, response,
                    sendScope, series, calls >>

SubmitChunk ==
    /\ sendpc = "chunks"
    /\ LET chunks == Chunks(series, ChunkSize)
           k      == chunkIdx + 1
       IN  /\ k <= Len(chunks)
           /\ \/ /\ log' = Append(log, SubmitEvent(sendScope, calls, k, Len(chunks[k]), TRUE, ""))
                 /\ sent' = Append(sent, chunks[k])
                 /\ chunkIdx' = k
                 /\ failures' = failures
                 /\ IF k = Len(chunks)
                      THEN sendpc' = "ret" /\ sendResult' = Some(OkResult)
                      ELSE sendpc' = "chunks" /\ sendResult' = None
              \/ \E variant \in SubmitErrors :
                    /\ CanFail
                    /\ failures' = failures + 1
                    /\ log' = Append(log, SubmitEvent(sendScope, calls, k, Len(chunks[k]), FALSE, variant))
                    /\ sent' = sent
                    /\ chunkIdx' = k
                    /\ sendpc' = "ret"
                    /\ sendResult' = Some(DispatchError(variant))
    /\ UNCHANGED << entry, env, pc, namespace, team_slugs, idx, cur, j, success_count,
                    error_count, rootResult, teamResults, teamsResult, teamErr, response,
                    sendScope, series, calls >>

\* the caller takes the result; the locals of send_metrics are dropped
SendMetricsReturn ==
    /\ sendpc = "ret"
    /\ sendpc' = "idle"
    /\ series' = << >>
    /\ sent' = << >>
    /\ chunkIdx' = 0
    /\ sendResult' = None
    /\ UNCHANGED << sendScope, calls >>

(***************************************************************************)
(* A direct call of DatadogClient::send_metrics                             *)
(***************************************************************************)
DirectCall ==
    /\ entry = "send"
    /\ pc = "start"
    /\ \E id \in DirectLists, ns \in DirectNamespaces :
          /\ cur' = id
          /\ SendMetricsCall(MetricsOf(id), ns, DirectScope)
          /\ namespace' = ns
    /\ pc' = "d_send"
    /\ UNCHANGED << entry, env, team_slugs, idx, j, success_count, error_count,
                    rootResult, teamResults, teamsResult, teamErr, response, log >>

DirectReturn ==
    /\ entry = "send"
    /\ pc = "d_send"
    /\ SendMetricsReturn
    /\ response' = Some(IF sendResult[1].ok THEN OkResponse("") ELSE ErrResponse(sendResult[1]))
    /\ pc' = "done"
    /\ UNCHANGED << entry, env, namespace, team_slugs, idx, cur, j, success_count,
                    error_count, rootResult, teamResults, teamsResult, teamErr, log, failures >>

(***************************************************************************)
(* main.rs: function_handler, with processors/enterprise.rs and             *)
(* processors/team.rs                                                       *)
(***************************************************************************)
MainMessage == "GitHub Copilot metrics processing completed"

\* lines 50-106: the environment is read; WORKFLOW STEP 1 is entered or skipped
\* a faulty start: SKIP_ENTERPRISE_METRICS is not consulted
MainStart_IgnoresSkip ==
    /\ entry = "main"
    /\ pc = "start"
    /\ LET missing == FirstMissing(env, RequiredMain)
       IN  IF missing # ""
             THEN /\ response' = Some(ErrResponse(ConfigError(missing)))
                  /\ pc' = "done"
                  /\ UNCHANGED << namespace, team_slugs >>
             ELSE /\ namespace' = UnwrapOr(env["DATADOG_METRIC_NAMESPACE"], "github.copilot")
                  /\ team_slugs' = IF IsSet(env, "GITHUB_TEAM_SLUGS")
                                     THEN Some(ParseSlugs(env["GITHUB_TEAM_SLUGS"][1]))
                                     ELSE None
                  /\ pc' = "m_enterprise"
                  /\ UNCHANGED response
    /\ UNCHANGED << entry, env, idx, cur, j, success_count, error_count, rootResult,
                    teamResults, teamsResult, teamErr, log, failures >>
    /\ UNCHANGED sendVars

MainStart ==
    /\ entry = "main"
    /\ pc = "start"
    /\ LET missing == FirstMissing(env, RequiredMain)
       IN  IF missing # ""
             THEN /\ response' = Some(ErrResponse(ConfigError(missing)))
                  /\ pc' = "done"
                  /\ UNCHANGED << namespace, team_slugs >>
             ELSE /\ namespace' = UnwrapOr(env["DATADOG_METRIC_NAMESPACE"], "github.copilot")
                  /\ team_slugs' = IF IsSet(env, "GITHUB_TEAM_SLUGS")
                                     THEN Some(ParseSlugs(env["GITHUB_TEAM_SLUGS"][1]))
                                     ELSE None
                  /\ pc' = IF SkipEnterprise THEN "m_teams" ELSE "m_enterprise"
                  /\ UNCHANGED response
    /\ UNCHANGED << entry, env, idx, cur, j, success_count, error_count, rootResult,
                    teamResults, teamsResult, teamErr, log, failures >>
    /\ UNCHANGED sendVars

\* process_enterprise_metrics up to its send_metrics call
ProcessEnterpriseFetch ==
    /\ entry = "main"
    /\ pc = "m_enterprise"
    /\ \/ \E variant \in FetchErrors :
             \* Err(anyhow!("Failed to fetch enterprise metrics: {}", e))
             /\ CanFail
             /\ failures' = failures + 1
             /\ log' = Append(log, FetchEvent(RootScope, FALSE, variant, NoList))
             /\ rootResult' = Some(FetchError(variant))
             /\ pc' = "m_teams"
             /\ UNCHANGED cur
             /\ UNCHANGED sendVars
       \/ \E id \in MainLists :
             /\ log' = Append(log, FetchEvent(RootScope, TRUE, "", id))
             /\ IF MetricsOf(id) = << >>
                  THEN \* "No enterprise metrics returned": return Ok(())
                       /\ rootResult' = Some(EmptyMetricsResult)
                       /\ pc' = "m_teams"
                       /\ UNCHANGED << cur, failures >>
                       /\ UNCHANGED sendVars
                  ELSE /\ cur' = id
                       /\ SendMetricsCall(MetricsOf(id), namespace, RootScope)
                       /\ pc' = "m_enterprise_send"
                       /\ UNCHANGED rootResult
    /\ UNCHANGED << entry, env, namespace, team_slugs, j, response >>
    /\ UNCHANGED teamVars

\* datadog_client.send_metrics(&metrics, datadog_namespace)?; Ok(())
\* and the match of function_handler, which logs either outcome
\* a faulty dispatch: the root scope's send_metrics call is not awaited
ProcessEnterpriseReturn_NoWait ==
    /\ entry = "main"
    /\ pc = "m_enterprise_send"
    /\ rootResult' = Some(OkResult)
    /\ cur' = NoList
    /\ pc' = "m_teams"
    /\ UNCHANGED << entry, env, namespace, team_slugs, j, response, log, failures >>
    /\ UNCHANGED teamVars
    /\ UNCHANGED sendVars

ProcessEnterpriseReturn ==
    /\ entry = "main"
    /\ pc = "m_enterprise_send"
    /\ SendMetricsReturn
    /\ rootResult' = sendResult
    /\ cur' = NoList
    /\ pc' = "m_teams"
    /\ UNCHANGED << entry, env, namespace, team_slugs, j, response, log, failures >>
    /\ UNCHANGED teamVars

\* WORKFLOW STEP 2: process_all_teams is called for a non-empty slug list;
\* otherwise the handler returns its response
MainTeams ==
    /\ entry = "main"
    /\ pc = "m_teams"
    /\ IF IsSome(team_slugs) /\ team_slugs[1] # << >>
         THEN /\ success_count' = 0
              /\ error_count' = 0
              /\ idx' = 1
              /\ pc' = "m_team"
              /\ UNCHANGED response
         ELSE /\ response' = Some(OkResponse(MainMessage))
              /\ pc' = "done"
              /\ UNCHANGED << idx, success_count, error_count >>
    /\ UNCHANGED << entry, env, namespace, team_slugs, cur, j, rootResult, teamResults,
                    teamsResult, teamErr, log, failures >>
    /\ UNCHANGED sendVars

\* process_all_teams: the match on one process_team_metrics result, and the
\* step of the for loop
\* a faulty loop: the first error ends it
CountTeam_StopsAtError(result) ==
    /\ teamResults' = Append(teamResults, result)
    /\ IF result.ok
         THEN success_count' = success_count + 1 /\ error_count' = error_count
         ELSE error_count' = error_count + 1 /\ success_count' = success_count
    /\ idx' = idx + 1
    /\ pc' = IF idx = Len(Slugs) \/ ~result.ok THEN "m_teams_end" ELSE "m_team"

\* a faulty loop: a failed sub-group is not counted and the loop stays on it
CountTeam_WaitsOnError(result) ==
    IF result.ok
      THEN /\ teamResults' = Append(teamResults, result)
           /\ success_count' = success_count + 1
           /\ error_count' = error_count
           /\ idx' = idx + 1
           /\ pc' = IF idx = Len(Slugs) THEN "m_teams_end" ELSE "m_team"
      ELSE UNCHANGED << teamResults, success_count, error_count, idx, pc >>

\* a faulty match: success_count += 1 sits after the match, so a failed
\* sub-group is counted in both counters
CountTeam_CountsFailureTwice(result) ==
    /\ teamResults' = Append(teamResults, result)
    /\ success_count' = success_count + 1
    /\ error_count' = IF result.ok THEN error_count ELSE error_count + 1
    /\ idx' = idx + 1
    /\ pc' = IF idx = Len(Slugs) THEN "m_teams_end" ELSE "m_team"

CountTeam(result) ==
    /\ teamResults' = Append(teamResults, result)
    /\ IF result.ok
         THEN success_count' = success_count + 1 /\ error_count' = error_count
         ELSE error_count' = error_count + 1 /\ success_count' = success_count
    /\ idx' = idx + 1
    /\ pc' = IF idx = Len(Slugs) THEN "m_teams_end" ELSE "m_team"

\* processors/team.rs process_team_metrics up to its send_metrics call
ProcessTeamFetch ==
    /\ entry = "main"
    /\ pc = "m_team"
    /\ \/ \E variant \in FetchErrors :
             \* Err(anyhow!("Failed to fetch team metrics: {}", e))
             /\ CanFail
             /\ failures' = failures + 1
             /\ log' = Append(log, FetchEvent(idx, FALSE, variant, NoList))
             /\ CountTeam(FetchError(variant))
             /\ UNCHANGED cur
             /\ UNCHANGED sendVars
       \/ \E id \in MainLists :
             /\ log' = Append(log, FetchEvent(idx, TRUE, "", id))
             /\ IF MetricsOf(id) = << >>
                  THEN \* "No team metrics returned": return Ok(())
                       /\ CountTeam(EmptyMetricsResult)
                       /\ UNCHANGED << cur, failures >>
                       /\ UNCHANGED sendVars
                  ELSE /\ cur' = id
                       /\ SendMetricsCall(MetricsOf(id),
                                          TeamNamespace(namespace, Slugs[idx]), idx)
                       /\ pc' = "m_team_send"
                       /\ UNCHANGED << idx, success_count, error_count, teamResults >>
    /\ UNCHANGED << entry, env, namespace, team_slugs, j, rootResult, teamsResult, teamErr, response >>

\* datadog_client.send_metrics(&metrics, &team_namespace)?; Ok(())
ProcessTeamReturn ==
    /\ entry = "main"
    /\ pc = "m_team_send"
    /\ SendMetricsReturn
    /\ CountTeam(sendResult[1])
    /\ cur' = NoList
    /\ UNCHANGED << entry, env, namespace, team_slugs, j, rootResult, teamsResult, teamErr,
                    response, log, failures >>

\* the result of process_all_teams
\* a faulty result: a single failed sub-group is let pass
ProcessAllTeamsResult_OffByOne(errors) ==
    IF errors > 1 THEN AggregateError(errors) ELSE OkResult

ProcessAllTeamsResult(errors) ==
    IF errors > 0 THEN AggregateError(errors) ELSE OkResult

\* process_all_teams returns; function_handler logs the result and returns
\* its response
\* a faulty end: the error of process_all_teams is returned to the caller
MainFinish_ReturnsError ==
    /\ entry = "main"
    /\ pc = "m_teams_end"
    /\ teamsResult' = Some(ProcessAllTeamsResult(error_count))
    /\ response' = Some(IF error_count > 0
                          THEN ErrResponse(ProcessAllTeamsResult(error_count))
                          ELSE OkResponse(MainMessage))
    /\ pc' = "done"
    /\ UNCHANGED << entry, env, namespace, team_slugs, idx, cur, j, success_count,
                    error_count, rootResult, teamResults, teamErr, log, failures >>
    /\ UNCHANGED sendVars

MainFinish ==
    /\ entry = "main"
    /\ pc = "m_teams_end"
    /\ teamsResult' = Some(ProcessAllTeamsResult(error_count))
    /\ response' = Some(OkResponse(MainMessage))
    /\ pc' = "done"
    /\ UNCHANGED << entry, env, namespace, team_slugs, idx, cur, j, success_count,
                    error_count, rootResult, teamResults, teamErr, log, failures >>
    /\ UNCHANGED sendVars

(***************************************************************************)
(* handler.rs: function_handler, process_metrics and its dedicated          *)
(* process_team_metrics                                                     *)
(***************************************************************************)
HandlerMessage ==
    IF ProcessOnlyTeams THEN "GitHub team metrics processed successfully"
                        ELSE "GitHub metrics processed successfully"

\* function_handler lines 29-69 and process_metrics lines 189-203
HandlerStart ==
    /\ entry = "handler"
    /\ pc = "start"
    /\ LET missing == FirstMissing(env, RequiredHandler)
       IN  IF missing # ""
             THEN /\ response' = Some(ErrResponse(ConfigError(missing)))
                  /\ pc' = "done"
                  /\ UNCHANGED namespace
             ELSE /\ namespace' = env["DATADOG_PREFIX"][1]
                  /\ pc' = IF ProcessOnlyTeams \/ SkipEnterprise THEN "h_teams" ELSE "h_root"
                  /\ UNCHANGED response
    /\ UNCHANGED << entry, env, team_slugs, cur, j, rootResult, log, failures >>
    /\ UNCHANGED teamVars
    /\ UNCHANGED sendVars

\* process_metrics lines 204-236: the enterprise snapshots are built (test
\* mode) or fetched
ProcessMetricsFetch ==
    /\ entry = "handler"
    /\ pc = "h_root"
    /\ IF Mock
         THEN \* the mock snapshot; the loop over it sends nothing in test mode
              /\ log' = Append(log, InjectEvent(RootScope, MockRoot))
              /\ rootResult' = Some(OkResult)
              /\ pc' = "h_teams"
              /\ UNCHANGED << cur, j, response, failures >>
         ELSE \/ \E variant \in FetchErrors :
                    \* return Err(Error::from(e))
                    /\ CanFail
                    /\ failures' = failures + 1
                    /\ log' = Append(log, FetchEvent(RootScope, FALSE, variant, NoList))
                    /\ rootResult' = Some(FetchError(variant))
                    /\ response' = Some(ErrResponse(FetchError(variant)))
                    /\ pc' = "done"
                    /\ UNCHANGED << cur, j >>
              \/ \E id \in HandlerLists :
                    /\ log' = Append(log, FetchEvent(RootScope, TRUE, "", id))
                    /\ IF MetricsOf(id) = << >>
                         THEN \* "No metrics data available for the enterprise"
                              /\ rootResult' = Some(EmptyMetricsResult)
                              /\ pc' = "h_teams"
                              /\ UNCHANGED << cur, j >>
                         ELSE /\ cur' = id
                              /\ j' = 1
                              /\ pc' = "h_root_loop"
                              /\ UNCHANGED rootResult
                    /\ UNCHANGED << response, failures >>
    /\ UNCHANGED << entry, env, namespace, team_slugs >>
    /\ UNCHANGED teamVars
    /\ UNCHANGED sendVars

\* process_metrics line 245: send_metrics(&[metric.clone()], datadog_namespace)
ProcessMetricsSend ==
    /\ entry = "handler"
    /\ pc = "h_root_loop"
    /\ SendMetricsCall(<< MetricsOf(cur)[j] >>, namespace, RootScope)
    /\ pc' = "h_root_send"
    /\ UNCHANGED << entry, env, namespace, team_slugs, cur, j, rootResult, response, log >>
    /\ UNCHANGED teamVars

\* process_metrics lines 244-253: an error is returned, otherwise the loop
\* goes on with the next snapshot
ProcessMetricsSendReturn ==
    /\ entry = "handler"
    /\ pc = "h_root_send"
    /\ SendMetricsReturn
    /\ IF ~sendResult[1].ok
         THEN /\ rootResult' = sendResult
              /\ response' = Some(ErrResponse(sendResult[1]))
              /\ pc' = "done"
              /\ UNCHANGED << cur, j >>
         ELSE IF j = Len(MetricsOf(cur))
             THEN /\ rootResult' = Some(OkResult)
                  /\ pc' = "h_teams"
                  /\ cur' = NoList
                  /\ j' = 0
                  /\ UNCHANGED response
             ELSE /\ j' = j + 1
                  /\ pc' = "h_root_loop"
                  /\ UNCHANGED << cur, rootResult, response >>
    /\ UNCHANGED << entry, env, namespace, team_slugs, log, failures >>
    /\ UNCHANGED teamVars

\* process_team_metrics returns Ok(()); process_metrics / function_handler
\* return the statusCode 200 response
HandlerReturn ==
    /\ teamsResult' = Some(OkResult)
    /\ response' = Some(OkResponse(HandlerMessage))
    /\ pc' = "done"

\* process_team_metrics lines 85-106: GITHUB_TEAM_SLUGS is read and parsed
HandlerTeamsBegin ==
    /\ entry = "handler"
    /\ pc = "h_teams"
    /\ IF ~IsSet(env, "GITHUB_TEAM_SLUGS")
         THEN /\ HandlerReturn
              /\ UNCHANGED << team_slugs, idx >>
         ELSE LET teams == ParseSlugs(env["GITHUB_TEAM_SLUGS"][1])
              IN  /\ team_slugs' = Some(teams)
                  /\ IF teams = << >>
                       THEN HandlerReturn /\ UNCHANGED idx
                       ELSE /\ idx' = 1
                            /\ pc' = "h_team"
                            /\ UNCHANGED << teamsResult, response >>
    /\ UNCHANGED << entry, env, namespace, cur, j, success_count, error_count,
                    rootResult, teamResults, teamErr, log, failures >>
    /\ UNCHANGED sendVars

\* the step of `for team_slug in teams`, taken by every `continue` of the
\* outer loop and by the end of the inner loop; `result` records how the
\* team went
NextTeam(result) ==
    /\ teamResults' = Append(teamResults, result)
    /\ teamErr' = None
    /\ cur' = NoList
    /\ j' = 0
    /\ IF idx = Len(Slugs)
         THEN HandlerReturn /\ UNCHANGED idx
         ELSE /\ idx' = idx + 1
              /\ pc' = "h_team"
              /\ UNCHANGED << teamsResult, response >>

\* process_team_metrics lines 107-145: the team's snapshots are built (test
\* mode) or fetched
HandlerTeamFetch ==
    /\ entry = "handler"
    /\ pc = "h_team"
    /\ IF Mock
         THEN \* the mock snapshot; the loop over it sends nothing in test mode
              /\ log' = Append(log, InjectEvent(idx, MockTeam))
              /\ NextTeam(OkResult)
              /\ UNCHANGED failures
         ELSE \/ \E variant \in FetchErrors :
                    \* "Error fetching GitHub metrics for team": continue
                    /\ CanFail
                    /\ failures' = failures + 1
                    /\ log' = Append(log, FetchEvent(idx, FALSE, variant, NoList))
                    /\ NextTeam(FetchError(variant))
              \/ \E id \in HandlerLists :
                    /\ log' = Append(log, FetchEvent(idx, TRUE, "", id))
                    /\ UNCHANGED failures
                    /\ IF MetricsOf(id) = << >>
                         THEN \* "No metrics data available for team": continue
                              NextTeam(EmptyMetricsResult)
                         ELSE /\ cur' = id
                              /\ j' = 1
                              /\ pc' = "h_team_loop"
                              /\ UNCHANGED << idx, teamResults, teamsResult, teamErr,
                                              response >>
    /\ UNCHANGED << entry, env, namespace, team_slugs, success_count, error_count,
                    rootResult >>
    /\ UNCHANGED sendVars

\* process_team_metrics line 160: send_metrics(&[metric.clone()], &team_namespace)
HandlerTeamSend ==
    /\ entry = "handler"
    /\ pc = "h_team_loop"
    /\ SendMetricsCall(<< MetricsOf(cur)[j] >>, TeamNamespace(namespace, Slugs[idx]), idx)
    /\ pc' = "h_team_send"
    /\ UNCHANGED << entry, env, namespace, team_slugs, cur, j, rootResult, response, log >>
    /\ UNCHANGED teamVars

\* a faulty arm: `break` in place of `continue`, so a failed send_metrics
\* gives up the team's remaining snapshots
HandlerTeamSendReturn_BreaksOnError ==
    /\ entry = "handler"
    /\ pc = "h_team_send"
    /\ SendMetricsReturn
    /\ LET err == IF ~sendResult[1].ok /\ teamErr = None THEN sendResult ELSE teamErr
       IN  IF j = Len(MetricsOf(cur)) \/ ~sendResult[1].ok
             THEN NextTeam(UnwrapOr(err, OkResult))
             ELSE /\ j' = j + 1
                  /\ teamErr' = err
                  /\ pc' = "h_team_loop"
                  /\ UNCHANGED << idx, cur, teamResults, teamsResult, response >>
    /\ UNCHANGED << entry, env, namespace, team_slugs, success_count, error_count,
                    rootResult, log, failures >>

\* process_team_metrics lines 160-171: either outcome is logged and the inner
\* loop goes on with the next snapshot
HandlerTeamSendReturn ==
    /\ entry = "handler"
    /\ pc = "h_team_send"
    /\ SendMetricsReturn
    /\ LET err == IF ~sendResult[1].ok /\ teamErr = None THEN sendResult ELSE teamErr
       IN  IF j = Len(MetricsOf(cur))
             THEN NextTeam(UnwrapOr(err, OkResult))
             ELSE /\ j' = j + 1
                  /\ teamErr' = err
                  /\ pc' = "h_team_loop"
                  /\ UNCHANGED << idx, cur, teamResults, teamsResult, response >>
    /\ UNCHANGED << entry, env, namespace, team_slugs, success_count, error_count,
                    rootResult, log, failures >>

(***************************************************************************)
(* Specification                                                           *)
(***************************************************************************)
Next ==
    \/ DirectCall
    \/ DirectReturn
    \/ SubmitChunk
    \/ MainStart
    \/ ProcessEnterpriseFetch
    \/ ProcessEnterpriseReturn
    \/ MainTeams
    \/ ProcessTeamFetch
    \/ ProcessTeamReturn
    \/ MainFinish
    \/ HandlerStart
    \/ ProcessMetricsFetch
    \/ ProcessMetricsSend
    \/ ProcessMetricsSendReturn
    \/ HandlerTeamsBegin
    \/ HandlerTeamFetch
    \/ HandlerTeamSend
    \/ HandlerTeamSendReturn

Spec == Init /\ [][Next]_vars

\* the runs in which the program keeps running: every call returns and the
\* single thread takes its next step whenever it has one
FairSpec == Spec /\ WF_vars(Next)

\* the runs of main.rs's function_handler alone, under the same condition
MainInit == Init /\ entry = "main"
MainNext ==
    \/ MainStart
    \/ ProcessEnterpriseFetch
    \/ SubmitChunk
    \/ ProcessEnterpriseReturn
    \/ MainTeams
    \/ ProcessTeamFetch
    \/ ProcessTeamReturn
    \/ MainFinish
MainFairSpec == MainInit /\ [][MainNext]_vars /\ WF_vars(MainNext)

(***************************************************************************)
(* Vocabulary of the properties                                            *)
(***************************************************************************)
Orchestrator == entry \in {"main", "handler"}
Finished == pc = "done"
ConfigComplete ==
    FirstMissing(env, IF entry = "main" THEN RequiredMain ELSE RequiredHandler) = ""
\* the slug list the run is configured with
ConfiguredSlugs ==
    IF IsSet(env, "GITHUB_TEAM_SLUGS") THEN ParseSlugs(env["GITHUB_TEAM_SLUGS"][1]) ELSE << >>
\* the root phase is disabled by SKIP_ENTERPRISE_METRICS, and in handler.rs also
\* by PROCESS_ONLY_TEAMS
SkipRoot == SkipEnterprise \/ (entry = "handler" /\ ProcessOnlyTeams)
\* handler.rs builds its snapshots itself when MOCK_GITHUB_API is set
Injecting == entry = "handler" /\ Mock
RootFailed == IsSome(rootResult) /\ ~rootResult[1].ok
FailedTeams == {i \in DOMAIN teamResults : ~teamResults[i].ok}
EventsOf(scope) == SelectSeq(log, LAMBDA e : e.scope = scope)
FetchesOf(scope) == SelectSeq(log, LAMBDA e : e.scope = scope /\ e.op = "fetch")
SubmitsOf(scope) == SelectSeq(log, LAMBDA e : e.scope = scope /\ e.op = "submit")
\* the attempts of the sub-group phase: a fetch, or the mock snapshot built
\* in its place
TeamAttempts == SelectSeq(log, LAMBDA e : e.scope >= 1 /\ e.op \in {"fetch", "inject"})
\* position in the history of the first fetch of a scope (0: none)
FirstFetch(scope) ==
    IF \E k \in DOMAIN log : log[k].op = "fetch" /\ log[k].scope = scope
        THEN CHOOSE k \in DOMAIN log :
                /\ log[k].op = "fetch" /\ log[k].scope = scope
                /\ \A h \in 1..(k - 1) : ~(log[h].op = "fetch" /\ log[h].scope = scope)
        ELSE 0
\* the namespace a scope's points are sent under
ScopeNamespace(scope) ==
    IF scope <= 0 THEN namespace ELSE TeamNamespace(namespace, ConfiguredSlugs[scope])
\* number of points the snapshots fetched for a scope flatten to
PointsFetched(scope) ==
    LET f == FetchesOf(scope)
    IN  IF f = << >> \/ ~f[1].ok THEN 0
        ELSE Len(prepare_all_metrics(MetricsOf(f[1].list), ScopeNamespace(scope),
                                     CHOOSE t \in Timestamps : TRUE,
                                     env["DATADOG_NAMESPACE_P7S1"]))
PointsSubmitted(scope) ==
    LET s == SubmitsOf(scope)
    IN  Sum([k \in 1..Len(s) |-> IF s[k].ok THEN s[k].n ELSE 0])

(***************************************************************************)
(* C1. With the root scope enabled and at least one sub-group configured,  *)
(* a failed fetch or dispatch of the root scope does not stop the run:     *)
(* when the run ends, every configured sub-group has been fetched, after   *)
(* the root scope's calls.                                                 *)
(***************************************************************************)
C1_RootFailureStillRunsTeams ==
    (Orchestrator /\ Finished /\ ConfigComplete /\ ~SkipRoot /\ RootFailed
        /\ ConfiguredSlugs # << >>)
    => \A i \in 1..Len(ConfiguredSlugs) :
          /\ FirstFetch(i) > 0
          /\ \A r \in DOMAIN log : log[r].scope = RootScope => r < FirstFetch(i)

\* the same, for the handler of main.rs alone
C1_MainRootFailureStillRunsTeams == entry = "main" => C1_RootFailureStillRunsTeams

C1_Witness ==
    /\ entry = "main" /\ Finished /\ RootFailed
    /\ Len(ConfiguredSlugs) = 2
    /\ FirstFetch(1) > 0 /\ FirstFetch(2) > 0

(***************************************************************************)
(* C2. Once the sub-group phase runs, every configured sub-group is        *)
(* attempted exactly once, in declared order, whatever happened to the     *)
(* earlier ones; outside handler.rs's test mode each attempt is a fetch;   *)
(* and every sub-group that succeeded has all the points of its snapshots  *)
(* submitted (none in test mode), even when another sub-group failed.      *)
(***************************************************************************)
C2_EveryTeamAttemptedOnce ==
    (Orchestrator /\ Finished /\ IsSome(response) /\ response[1].ok)
    => /\ [k \in 1..Len(TeamAttempts) |-> TeamAttempts[k].scope]
            = [k \in 1..Len(ConfiguredSlugs) |-> k]
       /\ ~Injecting => \A k \in 1..Len(TeamAttempts) : TeamAttempts[k].op = "fetch"
       /\ ConfiguredSlugs # << >> => Len(teamResults) = Len(ConfiguredSlugs)
       /\ \A i \in DOMAIN teamResults :
             teamResults[i].ok =>
                PointsSubmitted(i) = (IF Mock THEN 0 ELSE PointsFetched(i))

C2_Witness ==
    /\ Orchestrator /\ Finished /\ ~Mock
    /\ Len(teamResults) = 2
    /\ ~teamResults[1].ok
    /\ teamResults[2].ok
    /\ PointsSubmitted(2) > 0

(***************************************************************************)
(* C3. process_all_teams returns an error exactly when at least one        *)
(* sub-group's processing returned an error; it returns only after every   *)
(* sub-group was processed; the count in the error is the number of        *)
(* sub-groups whose processing returned an error.                          *)
(***************************************************************************)
C3_AggregateErrorCountsFailures ==
    (entry = "main" /\ IsSome(teamsResult))
    => /\ Len(teamResults) = Len(ConfiguredSlugs)
       /\ Len(TeamAttempts) = Len(ConfiguredSlugs)
       /\ teamsResult[1].ok <=> FailedTeams = {}
       /\ ~teamsResult[1].ok =>
             /\ teamsResult[1].kind = "aggregate"
             /\ teamsResult[1].count = Cardinality(FailedTeams)

C3_Witness ==
    /\ entry = "main" /\ IsSome(teamsResult)
    /\ teamsResult[1] = AggregateError(1)
    /\ Len(teamResults) = 2
    /\ teamResults[2].ok

Returning == sendpc = "ret" /\ IsSome(sendResult)
\* the submit calls of one send_metrics call, in the order they were made
SubmitsOfCall(c) == SelectSeq(log, LAMBDA e : e.op = "submit" /\ e.call = c)
\* the snapshots the running send_metrics call was given
SnapshotsGiven ==
    IF entry = "handler" THEN << MetricsOf(cur)[j] >> ELSE MetricsOf(cur)
CeilDiv(n, d) == IF n % d = 0 THEN n \div d ELSE n \div d + 1

(***************************************************************************)
(* C5. When send_metrics returns Ok after transmitting (every submit       *)
(* succeeded), the chunks it handed to the transport, concatenated in      *)
(* submission order, are exactly the series prepared from its snapshots:   *)
(* same length, same order, same points.                                   *)
(***************************************************************************)
C5_ChunksPartitionSeries ==
    (Returning /\ sendResult[1].ok /\ ~Mock)
    => /\ Concat(sent) = series
       /\ \E timestamp \in Timestamps :
             series = prepare_all_metrics(SnapshotsGiven, ScopeNamespace(sendScope),
                                          timestamp, env["DATADOG_NAMESPACE_P7S1"])

C5_Witness ==
    /\ Returning /\ sendResult[1].ok /\ ~Mock
    /\ Len(series) = 2 * TwoChunkSnapshots
    /\ Len(sent) = 2
    /\ Len(sent[2]) = Len(series) - ChunkSize

(***************************************************************************)
(* C6. When send_metrics returns Ok after transmitting a series of n       *)
(* points, it has made exactly ceil(n/100) submit calls, for the chunks    *)
(* 1, 2, ... in turn; every chunk holds between 1 and 100 points and every *)
(* chunk but the last exactly 100; an empty series causes no submit call;  *)
(* 250 points are submitted as chunks of 100, 100 and 50.                  *)
(***************************************************************************)
C6_OneSubmitPerChunk ==
    (Returning /\ sendResult[1].ok /\ ~Mock)
    => LET n == Len(series)
           s == SubmitsOfCall(calls)
       IN  /\ Len(s) = CeilDiv(n, 100)
           /\ Len(sent) = Len(s)
           /\ n = 0 => s = << >>
           /\ \A k \in 1..Len(s) :
                 /\ s[k].chunk = k
                 /\ s[k].ok
                 /\ s[k].n = Len(sent[k])
                 /\ s[k].n >= 1 /\ s[k].n <= 100
                 /\ k < Len(s) => s[k].n = 100
           /\ n = 250 => [k \in 1..Len(s) |-> s[k].n] = << 100, 100, 50 >>

C6_Witness ==
    /\ Returning /\ sendResult[1].ok /\ ~Mock
    /\ Len(series) = 250
    /\ Len(SubmitsOfCall(calls)) = 3

\* an empty series: send_metrics returns Ok without any submit call
C6_WitnessEmpty ==
    /\ Returning /\ sendResult[1].ok /\ ~Mock
    /\ series = << >>
    /\ calls = 1
    /\ SubmitsOfCall(calls) = << >>

(***************************************************************************)
(* C7. In every send_metrics call the submits are made for the chunks      *)
(* 1, 2, ... each once, and a failed submit is the last of its call (no    *)
(* later chunk, no retry); the call then returns the error of that submit, *)
(* and the chunks before it were delivered and stay so (they are the       *)
(* first points of the series, and no further call is made for them).      *)
(***************************************************************************)
C7_FailedSubmitEndsTheCall ==
    /\ \A c \in 1..calls :
          LET s == SubmitsOfCall(c)
          IN  \A k \in 1..Len(s) :
                 /\ s[k].chunk = k
                 /\ k < Len(s) => s[k].ok
    /\ (Returning /\ chunkIdx > 0 /\ ~SubmitsOfCall(calls)[Len(SubmitsOfCall(calls))].ok)
       => LET s == SubmitsOfCall(calls)
              k == Len(s)
          IN  /\ k = chunkIdx
              /\ sendResult = Some(DispatchError(s[k].variant))
              /\ Len(sent) = k - 1
              /\ Concat(sent) = SubSeq(series, 1, (k - 1) * 100)
              /\ (k - 1) * 100 < Len(series)

C7_Witness ==
    /\ Returning /\ ~sendResult[1].ok
    /\ Len(series) = 250
    /\ Len(sent) = 1
    /\ Len(SubmitsOfCall(calls)) = 2
    /\ ~SubmitsOfCall(calls)[2].ok

(***************************************************************************)
(* C8. The scopes are processed one after the other, the root scope first  *)
(* and then the sub-groups in their order: the history of calls never goes *)
(* back to an earlier scope, so every call made for a scope comes before   *)
(* every call made for a later scope; within a scope only submit calls     *)
(* follow its fetch; and the submit calls being made are those of the      *)
(* scope fetched last.                                                     *)
(***************************************************************************)
C8_ScopesStrictlySequential ==
    Orchestrator
    => /\ \A a \in 1..(Len(log) - 1) :
             /\ log[a].scope <= log[a + 1].scope
             /\ log[a].scope = log[a + 1].scope => log[a + 1].op = "submit"
       /\ log # << >> =>
             /\ log[1].scope >= RootScope
             /\ log[Len(log)].scope <= Len(ConfiguredSlugs)
       /\ sendpc = "chunks" => (log # << >> /\ log[Len(log)].scope = sendScope)

C8_Witness ==
    /\ Orchestrator /\ Finished
    /\ \A scope \in 0..2 :
          /\ FetchesOf(scope) # << >>
          /\ SubmitsOf(scope) # << >>

(***************************************************************************)
(* C9 (as claimed). With SKIP_ENTERPRISE_METRICS set a run makes no call   *)
(* for the root scope and attempts exactly the configured sub-groups;      *)
(* without it the root scope is fetched exactly once, before everything    *)
(* else.                                                                   *)
(***************************************************************************)
C9_SkipSwitchDecidesRootFetch ==
    (Orchestrator /\ Finished /\ ConfigComplete)
    => IF SkipEnterprise
         THEN /\ EventsOf(RootScope) = << >>
              /\ [k \in 1..Len(TeamAttempts) |-> TeamAttempts[k].scope]
                    = [k \in 1..Len(ConfiguredSlugs) |-> k]
         ELSE /\ Len(FetchesOf(RootScope)) = 1
              /\ log[1].op = "fetch" /\ log[1].scope = RootScope

(***************************************************************************)
(* C9 (amended). With SKIP_ENTERPRISE_METRICS set, or in handler.rs with   *)
(* PROCESS_ONLY_TEAMS set, a run makes no call and builds no snapshot for  *)
(* the root scope and attempts exactly the configured sub-groups; with     *)
(* neither set the root scope is attempted exactly once, before            *)
(* everything else: by one fetch, or in handler.rs's test mode             *)
(* (MOCK_GITHUB_API) by one built-in snapshot and no fetch.                *)
(***************************************************************************)
C9_SkipSwitchesDecideRootAttempt ==
    (Orchestrator /\ Finished /\ ConfigComplete)
    => IF SkipRoot
         THEN /\ EventsOf(RootScope) = << >>
              /\ rootResult = None
              /\ [k \in 1..Len(TeamAttempts) |-> TeamAttempts[k].scope]
                    = [k \in 1..Len(ConfiguredSlugs) |-> k]
         ELSE /\ log # << >>
              /\ log[1].scope = RootScope
              /\ log[1].op = (IF Injecting THEN "inject" ELSE "fetch")
              /\ Len(SelectSeq(log, LAMBDA e : e.scope = RootScope
                                                /\ e.op \in {"fetch", "inject"})) = 1
              /\ Injecting => FetchesOf(RootScope) = << >>

C9_Witness ==
    /\ Orchestrator /\ Finished /\ ConfigComplete
    /\ SkipEnterprise
    /\ Len(TeamAttempts) = 2
    /\ SubmitsOf(2) # << >>

\* the root phase of handler.rs is also skipped by PROCESS_ONLY_TEAMS alone
C9_WitnessOnlyTeams ==
    /\ entry = "handler" /\ Finished /\ ConfigComplete
    /\ ~SkipEnterprise /\ ProcessOnlyTeams
    /\ Len(TeamAttempts) = 2

\* the root snapshot of handler.rs's test mode
C9_WitnessInjected ==
    /\ entry = "handler" /\ Finished /\ ConfigComplete
    /\ ~SkipRoot /\ Mock
    /\ log[1].op = "inject"
    /\ Len(TeamAttempts) = 2

(***************************************************************************)
(* C10. With MOCK_GITHUB_API set no fetch and no submit call is made for   *)
(* any scope, and with the required configuration present the handler      *)
(* returns the statusCode 200 response, with or without sub-groups.        *)
(***************************************************************************)
C10_MockModeMakesNoCalls ==
    Mock
    => /\ \A k \in DOMAIN log : log[k].op \notin {"fetch", "submit"}
       /\ (Orchestrator /\ Finished /\ ConfigComplete)
             => (response[1].ok /\ response[1].statusCode = 200)

\* what holds of every entry point: the transport is never called and the
\* response is the statusCode 200 one
C10_MockModeNeverSubmits ==
    Mock
    => /\ \A k \in DOMAIN log : log[k].op # "submit"
       /\ calls = 0
       /\ entry = "handler" => \A k \in DOMAIN log : log[k].op # "fetch"
       /\ (Orchestrator /\ Finished /\ ConfigComplete)
             => (response[1].ok /\ response[1].statusCode = 200)

(***************************************************************************)
(* Vocabulary of the properties of the flattening                          *)
(***************************************************************************)
\* a send_metrics call has prepared its series and not returned to its caller
Prepared ==
    /\ sendpc \in {"chunks", "ret"}
    /\ ~Mock
    /\ ~(IsSome(sendResult) /\ sendResult[1].variant = "TimeError")
\* the rollup namespace of the run
Rollup == env["DATADOG_NAMESPACE_P7S1"]
BaseTagsOf(metric) == << "date:" \o metric.date, "source:github-copilot-metrics" >>
CustomTagOf(model) ==
    IF model.is_custom_model THEN "is_custom_model:true" ELSE "is_custom_model:false"
\* the points of the prepared series with a given tag list / metric name
WithTags(tags) == SelectSeq(series, LAMBDA p : p.tags = tags)
WithName(name) == SelectSeq(series, LAMBDA p : p.metric = name)
\* the points of the prepared series that belong to a snapshot
OfSnapshot(metric) == SelectSeq(series, LAMBDA p : p.tags[1] = "date:" \o metric.date)
\* the feature blocks of a snapshot (each a list of zero or one block) and
\* their breakdown lists
CodeCompletionsOf(metric) == metric.copilot_ide_code_completions
IdeChatOf(metric)         == metric.copilot_ide_chat
DotcomChatOf(metric)      == metric.copilot_dotcom_chat
PullRequestsOf(metric)    == metric.copilot_dotcom_pull_requests
LanguagesOf(metric) ==
    IF IsSome(CodeCompletionsOf(metric)) THEN ItemsOf(CodeCompletionsOf(metric)[1].languages)
                                         ELSE << >>
CompletionEditorsOf(metric) ==
    IF IsSome(CodeCompletionsOf(metric)) THEN ItemsOf(CodeCompletionsOf(metric)[1].editors)
                                         ELSE << >>
ChatEditorsOf(metric) ==
    IF IsSome(IdeChatOf(metric)) THEN ItemsOf(IdeChatOf(metric)[1].editors) ELSE << >>
DotcomModelsOf(metric) ==
    IF IsSome(DotcomChatOf(metric)) THEN ItemsOf(DotcomChatOf(metric)[1].models) ELSE << >>
RepositoriesOf(metric) ==
    IF IsSome(PullRequestsOf(metric)) THEN ItemsOf(PullRequestsOf(metric)[1].repositories)
                                      ELSE << >>
\* number of optional counters an entry carries
LanguageCounters == {"total_code_suggestions", "total_code_acceptances",
                     "total_code_lines_suggested", "total_code_lines_accepted"}
ModelCounters == {"total_chats", "total_chat_insertion_events",
                  "total_chat_copy_events", "total_pr_summaries_created"}
PresentOn(item, counters) == Cardinality({c \in counters : IsSome(item[c])})
\* the breakdown entries of a snapshot: the tag list of each and the number
\* of optional counters present on it
BreakdownEntries(metric) ==
    LET base == BaseTagsOf(metric)
    IN  {[tags |-> base \o << "language:" \o l.name >>,
          present |-> PresentOn(l, LanguageCounters)] : l \in Range(LanguagesOf(metric))}
        \cup {[tags |-> base \o << "editor:" \o e.name >>, present |-> 0] :
                e \in Range(CompletionEditorsOf(metric)) \cup Range(ChatEditorsOf(metric))}
        \cup UNION {{[tags |-> base \o << "editor:" \o e.name, "model:" \o m.name,
                                          CustomTagOf(m) >>,
                      present |-> PresentOn(m, ModelCounters)] :
                        m \in Range(ItemsOf(e.models))} : e \in Range(ChatEditorsOf(metric))}
        \cup {[tags |-> base \o << "model:" \o m.name, CustomTagOf(m) >>,
               present |-> PresentOn(m, ModelCounters)] : m \in Range(DotcomModelsOf(metric))}
        \cup {[tags |-> base \o << "repository:" \o r.name >>, present |-> 0] :
                r \in Range(RepositoriesOf(metric))}
        \cup UNION {{[tags |-> base \o << "repository:" \o r.name, "model:" \o m.name,
                                          CustomTagOf(m) >>,
                      present |-> PresentOn(m, ModelCounters)] :
                        m \in Range(r.models)} : r \in Range(RepositoriesOf(metric))}
\* number of snapshot lists the run has got to process
ListsToProcess ==
    Cardinality({k \in DOMAIN log :
                    \/ log[k].op = "inject"
                    \/ log[k].op = "fetch" /\ log[k].ok /\ MetricsOf(log[k].list) # << >>})
    + (IF entry = "send" /\ pc # "start" /\ MetricsOf(cur) # << >> THEN 1 ELSE 0)

(***************************************************************************)
(* C11. With MOCK_GITHUB_API set the snapshots of every processed scope    *)
(* are still flattened: by the end of the run prepare_all_metrics has run  *)
(* for every snapshot list the run had to process; only the submission is  *)
(* left out.                                                               *)
(***************************************************************************)
C11_MockModeStillFlattens ==
    (Mock /\ Finished) => calls >= ListsToProcess

\* what the code does: in test mode nothing is flattened at all
C11_MockModeNeverFlattens ==
    Mock => (calls = 0 /\ series = << >>)

(***************************************************************************)
(* C12. In a prepared series every breakdown entry (language, editor,      *)
(* model, repository) of every feature block of every snapshot has exactly *)
(* 1 + (number of optional counters present on the entry) points.          *)
(***************************************************************************)
C12_OnePointPerPresentCounter ==
    Prepared
    => \A i \in DOMAIN SnapshotsGiven :
          \A b \in BreakdownEntries(SnapshotsGiven[i]) :
             Len(WithTags(b.tags)) = 1 + b.present

\* what the code does: a language has a point for each present counter; a
\* model nested in an editor or a repository has one only for
\* total_pr_summaries_created, a model of the web chat only for total_chats
C12_EmittedCounters ==
    Prepared
    => \A i \in DOMAIN SnapshotsGiven :
          LET metric == SnapshotsGiven[i]
              base   == BaseTagsOf(metric)
          IN  /\ \A l \in Range(LanguagesOf(metric)) :
                    Len(WithTags(base \o << "language:" \o l.name >>))
                        = 1 + PresentOn(l, LanguageCounters)
              /\ \A e \in Range(ChatEditorsOf(metric)) :
                    \A m \in Range(ItemsOf(e.models)) :
                       Len(WithTags(base \o << "editor:" \o e.name, "model:" \o m.name,
                                               CustomTagOf(m) >>))
                           = 1 + PresentOn(m, {"total_pr_summaries_created"})
              /\ \A m \in Range(DotcomModelsOf(metric)) :
                    Len(WithTags(base \o << "model:" \o m.name, CustomTagOf(m) >>))
                        = 1 + PresentOn(m, {"total_chats"})
              /\ \A r \in Range(RepositoriesOf(metric)) :
                    \A m \in Range(r.models) :
                       Len(WithTags(base \o << "repository:" \o r.name, "model:" \o m.name,
                                               CustomTagOf(m) >>))
                           = 1 + PresentOn(m, {"total_pr_summaries_created"})

(***************************************************************************)
(* C13. A snapshot without any feature block flattens to exactly two       *)
(* points, in this order: N.total_active_users and N.total_engaged_users   *)
(* (N the namespace of the call), each with the snapshot's count as value, *)
(* or 0 where the count is absent, and each tagged exactly                 *)
(* [date:<snapshot date>, source:github-copilot-metrics].                  *)
(***************************************************************************)
Blockless(metric) ==
    /\ CodeCompletionsOf(metric) = None
    /\ IdeChatOf(metric) = None
    /\ DotcomChatOf(metric) = None
    /\ PullRequestsOf(metric) = None
CountOrZero(count) == IF count = None THEN 0 ELSE count[1]
\* name, value and tags of the points of a series
Shape(points) ==
    [k \in 1..Len(points) |->
        [metric |-> points[k].metric, value |-> points[k].points[1].value,
         tags |-> points[k].tags]]
\* the two points expected of a blockless snapshot under the namespace N
CoreShape(metric, N) ==
    << [metric |-> N \o ".total_active_users",
        value |-> CountOrZero(metric.total_active_users),
        tags |-> << "date:" \o metric.date, "source:github-copilot-metrics" >>],
       [metric |-> N \o ".total_engaged_users",
        value |-> CountOrZero(metric.total_engaged_users),
        tags |-> << "date:" \o metric.date, "source:github-copilot-metrics" >>] >>
C13_BlocklessSnapshotHasTwoPoints ==
    Prepared
    => LET given == SnapshotsGiven
           N     == ScopeNamespace(sendScope)
       IN  IF \A i \in DOMAIN given : Blockless(given[i])
             THEN \* the i-th snapshot owns the points 2i-1 and 2i of the series
                  /\ Len(series) = 2 * Len(given)
                  /\ \A i \in DOMAIN given :
                        Shape(SubSeq(series, 2 * i - 1, 2 * i)) = CoreShape(given[i], N)
             ELSE \A i \in DOMAIN given :
                     Blockless(given[i])
                     => Shape(OfSnapshot(given[i])) = CoreShape(given[i], N)

\* a call flattened a list that holds, next to snapshots with feature
\* blocks, a blockless snapshot whose engaged count is absent
C13_Witness ==
    /\ Prepared
    /\ \E i \in DOMAIN SnapshotsGiven : ~Blockless(SnapshotsGiven[i])
    /\ \E i \in DOMAIN SnapshotsGiven :
          /\ Blockless(SnapshotsGiven[i])
          /\ SnapshotsGiven[i].total_engaged_users = None
          /\ Len(OfSnapshot(SnapshotsGiven[i])) = 2

(***************************************************************************)
(* C14. With DATADOG_NAMESPACE_P7S1 set, the rollup points of a snapshot   *)
(* with an in-editor chat block carry the sums, over all the models of all *)
(* the editors of the block, of total_chats, total_chat_copy_events and    *)
(* total_chat_insertion_events, an absent counter counting as zero.        *)
(***************************************************************************)
AllBlockless == \A i \in DOMAIN SnapshotsGiven : Blockless(SnapshotsGiven[i])
\* every model of every editor of the in-editor chat block
ChatModelsOf(metric) ==
    UNION {{[editor |-> e, model |-> m] : m \in DOMAIN ItemsOf(ChatEditorsOf(metric)[e].models)} :
             e \in DOMAIN ChatEditorsOf(metric)}
RECURSIVE TotalOver(_, _, _)
TotalOver(metric, counter, models) ==
    IF models = {} THEN 0
    ELSE LET x == CHOOSE y \in models : TRUE
         IN  CountOrZero(ChatEditorsOf(metric)[x.editor].models[1][x.model][counter])
             + TotalOver(metric, counter, models \ {x})
\* the values, in series order, of the points of a snapshot with a name
ValuesNamed(metric, name) ==
    LET ps == SelectSeq(OfSnapshot(metric), LAMBDA p : p.metric = name)
    IN  [k \in 1..Len(ps) |-> ps[k].points[1].value]
C14_RollupTotalsAreSums ==
    (Prepared /\ IsSome(Rollup) /\ ~AllBlockless)
    => \A i \in DOMAIN SnapshotsGiven :
          LET metric == SnapshotsGiven[i]
          IN  IsSome(IdeChatOf(metric))
              => /\ ValuesNamed(metric, Rollup[1] \o ".copilot_ide_chat.total_chats")
                    = << TotalOver(metric, "total_chats", ChatModelsOf(metric)) >>
                 /\ ValuesNamed(metric, Rollup[1] \o ".copilot_ide_chat.total_chat_copy_events")
                    = << TotalOver(metric, "total_chat_copy_events", ChatModelsOf(metric)) >>
                 /\ ValuesNamed(metric,
                                Rollup[1] \o ".copilot_ide_chat.total_chat_insertion_events")
                    = << TotalOver(metric, "total_chat_insertion_events",
                                   ChatModelsOf(metric)) >>

\* the series of a snapshot whose models have 137, 298, 44 and 51 chats, on
\* two editors, holds the rollup total 530 (and 44 copies, 39 insertions)
C14_Witness ==
    /\ Prepared
    /\ IsSome(Rollup)
    /\ \E k \in DOMAIN series :
          /\ series[k].metric = Rollup[1] \o ".copilot_ide_chat.total_chats"
          /\ series[k].points[1].value = 530
    /\ \E k \in DOMAIN series :
          /\ series[k].metric = Rollup[1] \o ".copilot_ide_chat.total_chat_insertion_events"
          /\ series[k].points[1].value = 39

(***************************************************************************)
(* C15. Rollup points exist only when DATADOG_NAMESPACE_P7S1 is set and    *)
(* only for the in-editor chat block: a snapshot has exactly the three     *)
(* rollup points (total_chats, total_chat_copy_events,                     *)
(* total_chat_insertion_events, under the rollup namespace) when the       *)
(* variable is set and the block is present, and otherwise no point        *)
(* besides the two core points and those of its feature blocks.            *)
(***************************************************************************)
RollupNames(r) ==
    << r \o ".copilot_ide_chat.total_chats",
       r \o ".copilot_ide_chat.total_chat_copy_events",
       r \o ".copilot_ide_chat.total_chat_insertion_events" >>
BlocksOf(metric) ==
    Len(CodeCompletionsOf(metric)) + Len(IdeChatOf(metric))
    + Len(DotcomChatOf(metric)) + Len(PullRequestsOf(metric))
\* the names, in series order, of the points of a snapshot that carry only
\* the base tags: the core points, the head point of each feature block and
\* the rollup points
NamesOfTotals(metric) ==
    LET ps == SelectSeq(OfSnapshot(metric), LAMBDA p : Len(p.tags) = 2)
    IN  [k \in 1..Len(ps) |-> ps[k].metric]
HeadNames(metric) ==
    << ScopeNamespace(sendScope) \o ".total_active_users",
       ScopeNamespace(sendScope) \o ".total_engaged_users" >>
    \o (IF IsSome(CodeCompletionsOf(metric))
          THEN << ScopeNamespace(sendScope) \o ".ide.code_completions.total_engaged_users" >>
          ELSE << >>)
    \o (IF IsSome(IdeChatOf(metric))
          THEN << ScopeNamespace(sendScope) \o ".ide.chat.total_engaged_users" >>
               \o (IF IsSome(Rollup) THEN RollupNames(Rollup[1]) ELSE << >>)
          ELSE << >>)
    \o (IF IsSome(DotcomChatOf(metric))
          THEN << ScopeNamespace(sendScope) \o ".dotcom.chat.total_engaged_users" >>
          ELSE << >>)
    \o (IF IsSome(PullRequestsOf(metric))
          THEN << ScopeNamespace(sendScope) \o ".dotcom.pull_requests.total_engaged_users" >>
          ELSE << >>)
C15_RollupOnlyForConfiguredIdeChat ==
    Prepared
    => IF AllBlockless
         THEN Len(series) = 2 * Len(SnapshotsGiven)
         ELSE \A i \in DOMAIN SnapshotsGiven :
                 LET metric == SnapshotsGiven[i]
                     rollup == IF IsSome(Rollup) /\ IsSome(IdeChatOf(metric)) THEN 3 ELSE 0
                 IN  /\ NamesOfTotals(metric) = HeadNames(metric)
                     /\ Len(NamesOfTotals(metric)) = 2 + BlocksOf(metric) + rollup
                     /\ IsSome(Rollup)
                        => Len(SelectSeq(OfSnapshot(metric),
                                         LAMBDA p : p.metric \in Range(RollupNames(Rollup[1]))))
                           = rollup

\* one call flattened, with the rollup namespace set, a snapshot with the
\* in-editor chat block (three rollup points) and one without it (none)
C15_Witness ==
    /\ Prepared
    /\ IsSome(Rollup)
    /\ \E i \in DOMAIN SnapshotsGiven :
          /\ IsSome(IdeChatOf(SnapshotsGiven[i]))
          /\ Len(NamesOfTotals(SnapshotsGiven[i])) = 2 + BlocksOf(SnapshotsGiven[i]) + 3
    /\ \E i \in DOMAIN SnapshotsGiven :
          /\ IdeChatOf(SnapshotsGiven[i]) = None
          /\ BlocksOf(SnapshotsGiven[i]) > 0
          /\ Len(NamesOfTotals(SnapshotsGiven[i])) = 2 + BlocksOf(SnapshotsGiven[i])

\* with the variable unset a snapshot with the in-editor chat block has no
\* rollup point
C15_WitnessUnset ==
    /\ Prepared
    /\ Rollup = None
    /\ \E i \in DOMAIN SnapshotsGiven :
          /\ IsSome(IdeChatOf(SnapshotsGiven[i]))
          /\ Len(NamesOfTotals(SnapshotsGiven[i])) = 2 + BlocksOf(SnapshotsGiven[i])

(***************************************************************************)
(* C16. The points of the root scope are named under the root namespace R  *)
(* unchanged, those of the sub-group with identifier id under              *)
(* R + ".team." + id. For a fixed R the resolution is injective in id, and *)
(* no sub-group namespace equals R.                                        *)
(***************************************************************************)
\* identifiers the resolution is compared on, next to the configured ones:
\* some that contain the separator
SlugsWithSeparator == {"team", "ops.team.ai", ".team."}
C16_NamespaceResolution ==
    LET slugs == ConfiguredSlugs
        ids   == Range(slugs) \cup SlugsWithSeparator
    IN  /\ (Prepared /\ series # << >>)
           => series[1].metric
                = (IF sendScope <= 0
                     THEN namespace
                     ELSE namespace \o ".team." \o slugs[sendScope])
                  \o ".total_active_users"
        /\ \A a \in ids :
              LET of_a == TeamNamespace(namespace, a)
              IN  /\ of_a = namespace \o ".team." \o a
                  /\ of_a # namespace
                  /\ \A b \in ids \ {a} : of_a # TeamNamespace(namespace, b)

\* the second of two sub-groups is being submitted, after the root scope and
\* the first sub-group were submitted under their own namespaces
C16_Witness ==
    /\ Orchestrator
    /\ Prepared
    /\ sendScope = 2
    /\ series # << >>
    /\ series[1].metric = namespace \o ".team." \o ConfiguredSlugs[2] \o ".total_active_users"
    /\ ConfiguredSlugs[1] # ConfiguredSlugs[2]
    /\ SubmitsOf(RootScope) # << >>
    /\ SubmitsOf(1) # << >>

(***************************************************************************)
(* C17. The first two tags of every point of a prepared series are         *)
(* date:<date of the snapshot the point was made from> and                 *)
(* source:github-copilot-metrics, in that order; every further tag is a    *)
(* dimension tag of a breakdown entry, after the two.                      *)
(***************************************************************************)
\* the positions of the series where the first tag changes
DateChanges ==
    SelectSeq([k \in 1..Len(series) |-> k],
              LAMBDA k : k = 1 \/ series[k].tags[1] # series[k - 1].tags[1])
DimensionTags ==
    IF AllBlockless THEN {}
    ELSE UNION {UNION {{b.tags[t] : t \in 3..Len(b.tags)} :
                         b \in BreakdownEntries(SnapshotsGiven[i])} :
                  i \in DOMAIN SnapshotsGiven}
C17_BaseTagsFirst ==
    Prepared
    => LET given   == SnapshotsGiven
           changes == DateChanges
       IN  /\ \A k \in DOMAIN series :
                 /\ Len(series[k].tags) >= 2
                 /\ series[k].tags[2] = "source:github-copilot-metrics"
                 /\ \A t \in 3..Len(series[k].tags) : series[k].tags[t] \in DimensionTags
           \* the runs of equal date tags are the snapshots, in list order
           /\ Len(changes) = Len(given)
           /\ \A i \in DOMAIN given :
                 series[changes[i]].tags[1] = "date:" \o given[i].date

\* a series made from several snapshots, with points that carry three
\* dimension tags after the base tags
C17_Witness ==
    /\ Prepared
    /\ Len(SnapshotsGiven) > 1
    /\ \E k \in DOMAIN series :
          /\ Len(series[k].tags) = 5
          /\ series[k].tags[1] = "date:" \o SnapshotsGiven[2].date

(***************************************************************************)
(* C18. The points of a model nested in an editor of the in-editor chat    *)
(* block, or in a repository of the pull-request block, carry the base     *)
(* tags, then editor:<name> (repository:<name>) of the container the model *)
(* is nested in, then model:<name> and is_custom_model:<flag> of the       *)
(* model, also when sibling containers hold models of the same name.       *)
(***************************************************************************)
\* name, value and tags of the points of a snapshot with a given name
ShapeNamed(metric, name) ==
    Shape(SelectSeq(OfSnapshot(metric), LAMBDA p : p.metric = name))
\* the points expected for a counter of the models of a list of containers,
\* container by container: models(c) is the model list of a container
NestedShape(metric, name, dimension, containers, models(_), counter) ==
    Concat([c \in 1..Len(containers) |->
              LET ms   == models(containers[c])
                  with == SelectSeq(ms, LAMBDA m : counter = "total_engaged_users"
                                                   \/ m[counter] # None)
              IN  [m \in 1..Len(with) |->
                     [metric |-> name,
                      value  |-> IF counter = "total_engaged_users"
                                   THEN with[m].total_engaged_users
                                   ELSE with[m][counter][1],
                      tags   |-> << "date:" \o metric.date,
                                    "source:github-copilot-metrics",
                                    dimension \o ":" \o containers[c].name,
                                    "model:" \o with[m].name,
                                    CustomTagOf(with[m]) >>]]])
C18_NestedModelTags ==
    (Prepared /\ ~AllBlockless)
    => \A i \in DOMAIN SnapshotsGiven :
          LET metric          == SnapshotsGiven[i]
              N               == ScopeNamespace(sendScope)
              EditorModels(e) == ItemsOf(e.models)
              RepoModels(r)   == r.models
          IN  \A counter \in {"total_engaged_users", "total_pr_summaries_created"} :
                 /\ ShapeNamed(metric, N \o ".ide.chat.editors.models." \o counter)
                    = NestedShape(metric, N \o ".ide.chat.editors.models." \o counter,
                                  "editor", ChatEditorsOf(metric), EditorModels, counter)
                 /\ ShapeNamed(metric, N \o ".dotcom.pull_requests.repositories.models."
                                         \o counter)
                    = NestedShape(metric, N \o ".dotcom.pull_requests.repositories.models."
                                            \o counter,
                                  "repository", RepositoriesOf(metric), RepoModels, counter)

\* two editors of one snapshot each hold a model named alike, and the series
\* has a point for each of the two, tagged with its own editor
C18_Witness ==
    /\ Prepared
    /\ \E i \in DOMAIN SnapshotsGiven :
          \E e1, e2 \in DOMAIN ChatEditorsOf(SnapshotsGiven[i]) :
             LET editors == ChatEditorsOf(SnapshotsGiven[i])
                 base    == BaseTagsOf(SnapshotsGiven[i])
             IN  /\ e1 # e2
                 /\ \E m1 \in Range(ItemsOf(editors[e1].models)),
                       m2 \in Range(ItemsOf(editors[e2].models)) :
                       /\ m1.name = m2.name
                       /\ WithTags(base \o << "editor:" \o editors[e1].name,
                                              "model:" \o m1.name, CustomTagOf(m1) >>) # << >>
                       /\ WithTags(base \o << "editor:" \o editors[e2].name,
                                              "model:" \o m2.name, CustomTagOf(m2) >>) # << >>
    /\ \E i \in DOMAIN SnapshotsGiven :
          \E r \in Range(RepositoriesOf(SnapshotsGiven[i])) : r.models # << >>

(***************************************************************************)
(* C19. A successful fetch that returns no snapshot is not an error: the   *)
(* scope is recorded as succeeded (in main.rs it adds to success_count),   *)
(* no submit call is ever made for it, and the run goes on: by its end     *)
(* every later scope has been attempted.                                   *)
(***************************************************************************)
\* the scopes whose fetch succeeded with an empty list
EmptyScopes ==
    {log[k].scope : k \in {h \in DOMAIN log : /\ log[h].op = "fetch"
                                              /\ log[h].ok
                                              /\ log[h].list.n = 0}}
C19_EmptyListIsSuccess ==
    LET empty == EmptyScopes
    IN  /\ \A scope \in empty :
              /\ MetricsOf(FetchesOf(scope)[1].list) = << >>
              /\ SubmitsOf(scope) = << >>
              /\ IF scope = RootScope
                   THEN rootResult = Some(OkResult)
                   ELSE scope \in DOMAIN teamResults /\ teamResults[scope] = OkResult
              /\ Finished => \A later \in (scope + 1)..Len(ConfiguredSlugs) :
                                EventsOf(later) # << >>
        /\ entry = "main" => success_count >= Cardinality(empty \ {RootScope})

\* a finished run in which the root scope and the first sub-group had no
\* snapshot and the second sub-group was then fetched and submitted
C19_Witness ==
    /\ Finished
    /\ {RootScope, 1} \subseteq EmptyScopes
    /\ Len(ConfiguredSlugs) = 2
    /\ SubmitsOf(2) # << >>
    /\ IsSome(response) /\ response[1].ok

(***************************************************************************)
(* C20. The error send_metrics returns for a failed chunk submission       *)
(* identifies the chunk: when the submit of chunk k fails, the returned    *)
(* error carries the index k.                                              *)
(***************************************************************************)
\* the call is returning the error of a failed submit
ReturningSubmitError ==
    /\ Returning
    /\ chunkIdx > 0
    /\ SubmitsOfCall(calls) # << >>
    /\ ~SubmitsOfCall(calls)[Len(SubmitsOfCall(calls))].ok
C20_ErrorCarriesChunkIndex ==
    ReturningSubmitError
    => /\ ~sendResult[1].ok
       /\ sendResult[1].count = SubmitsOfCall(calls)[Len(SubmitsOfCall(calls))].chunk

\* C20 as the code has it: the error is the transport's error as it is
\* (Network or HttpError), with no chunk index, the same whichever chunk
\* failed; the chunk number is only in the "Sending chunk {} ({} series)" log
\* line written before the submit
C20_ErrorIsTheTransportError ==
    ReturningSubmitError
    => sendResult
         = Some([ok |-> FALSE, kind |-> "dispatch",
                 variant |-> SubmitsOfCall(calls)[Len(SubmitsOfCall(calls))].variant,
                 count |-> 0])

\* the second chunk of a call failed
C20_Witness ==
    /\ ReturningSubmitError
    /\ SubmitsOfCall(calls)[Len(SubmitsOfCall(calls))].chunk = 2
    /\ sendResult[1].variant = "HttpError"

(***************************************************************************)
(* C21. When one of the values a handler requires is missing (in the order *)
(* they are read: GITHUB_TOKEN, GITHUB_ENTERPRISE_ID, DATADOG_API_KEY and, *)
(* in handler.rs, the namespace prefix DATADOG_PREFIX), the handler        *)
(* returns the error that names the first missing one and makes no fetch   *)
(* and no submit call and builds no snapshot, also with MOCK_GITHUB_API    *)
(* set. With all of them set it never returns such an error.               *)
(***************************************************************************)
\* the values the running handler requires, in the order it reads them
RequiredInOrder ==
    IF entry = "main"
      THEN << "GITHUB_TOKEN", "GITHUB_ENTERPRISE_ID", "DATADOG_API_KEY" >>
      ELSE << "GITHUB_TOKEN", "GITHUB_ENTERPRISE_ID", "DATADOG_API_KEY", "DATADOG_PREFIX" >>
SomeRequiredMissing == \E i \in DOMAIN RequiredInOrder : env[RequiredInOrder[i]] = None
FirstRequiredMissing ==
    RequiredInOrder[CHOOSE i \in DOMAIN RequiredInOrder :
                       /\ env[RequiredInOrder[i]] = None
                       /\ \A h \in 1..(i - 1) : env[RequiredInOrder[h]] # None]
C21_FirstMissingValueIsNamed ==
    (Orchestrator /\ pc # "start")
    => IF SomeRequiredMissing
         THEN /\ pc = "done"
              /\ response = Some([ok |-> FALSE, statusCode |-> 0, message |-> "",
                                  error |-> [ok |-> FALSE, kind |-> "config",
                                             variant |-> FirstRequiredMissing,
                                             count |-> 0]])
              /\ log = << >>
              /\ calls = 0
              /\ sendpc = "idle"
         ELSE response = None \/ response[1].error.kind # "config"

\* handler.rs in test mode with two values missing: the error names the one
\* read first, and it is not the first of the list
C21_Witness ==
    /\ entry = "handler"
    /\ Mock
    /\ pc = "done"
    /\ env["GITHUB_TOKEN"] # None
    /\ env["GITHUB_ENTERPRISE_ID"] = None
    /\ env["DATADOG_PREFIX"] = None
    /\ IsSome(response)
    /\ response[1].error.variant = "GITHUB_ENTERPRISE_ID"

(***************************************************************************)
(* C22. Every run of main.rs's function_handler in which each call returns *)
(* reaches Done, whatever the list of sub-groups and whatever fetch and    *)
(* submit calls fail: the orchestrator never loops on a scope and never    *)
(* waits on a failed one.                                                  *)
(***************************************************************************)
C22_EveryRunReachesDone == <>(pc = "done")

\* a finished run of main.rs over two sub-groups in which as many calls
\* failed as may fail, among them a fetch and a submit
C22_Witness ==
    /\ entry = "main"
    /\ pc = "done"
    /\ Len(ConfiguredSlugs) = MaxTeams
    /\ failures = MaxFailures
    /\ \E k \in DOMAIN log : log[k].op = "fetch" /\ ~log[k].ok
    /\ \E k \in DOMAIN log : log[k].op = "submit" /\ ~log[k].ok

(***************************************************************************)
(* C23. With no rollup namespace configured, every point of the series     *)
(* submitted for a scope is named <the scope's resolved namespace>.<a      *)
(* metric of the flattening>, so no point submitted for a sub-group is     *)
(* named under the namespace of another sub-group; and the series holds    *)
(* exactly the points flattened from the scope's own snapshots, those its  *)
(* fetch returned last, and nothing of an earlier scope.                   *)
(***************************************************************************)
\* the metric names of the flattening, as they follow the namespace
MetricSuffixes ==
    {".total_active_users", ".total_engaged_users",
     ".ide.code_completions.total_engaged_users",
     ".ide.code_completions.languages.total_engaged_users",
     ".ide.code_completions.languages.total_code_suggestions",
     ".ide.code_completions.languages.total_code_acceptances",
     ".ide.code_completions.languages.total_code_lines_suggested",
     ".ide.code_completions.languages.total_code_lines_accepted",
     ".ide.code_completions.editors.total_engaged_users",
     ".ide.chat.total_engaged_users",
     ".ide.chat.editors.total_engaged_users",
     ".ide.chat.editors.models.total_engaged_users",
     ".ide.chat.editors.models.total_pr_summaries_created",
     ".dotcom.chat.total_engaged_users",
     ".dotcom.chat.models.total_engaged_users",
     ".dotcom.chat.models.total_chats",
     ".dotcom.pull_requests.total_engaged_users",
     ".dotcom.pull_requests.repositories.total_engaged_users",
     ".dotcom.pull_requests.repositories.models.total_engaged_users",
     ".dotcom.pull_requests.repositories.models.total_pr_summaries_created"}
\* the names a series of blockless snapshots, or of any snapshots, may hold
\* under the namespace N
NamesUnder(N, blockless) ==
    IF blockless THEN {N \o ".total_active_users", N \o ".total_engaged_users"}
    ELSE {N \o suffix : suffix \in MetricSuffixes}
\* the fetch or built-in snapshot the history ends with, submits aside
LastObtained ==
    LET got == SelectSeq(log, LAMBDA e : e.op \in {"fetch", "inject"})
    IN  got[Len(got)]
C23_PointsStayInTheirScope ==
    (Prepared /\ Rollup = None)
    => LET slugs     == ConfiguredSlugs
           given     == SnapshotsGiven
           blockless == AllBlockless
           Resolved(scope) == IF scope <= 0 THEN namespace
                              ELSE namespace \o ".team." \o slugs[scope]
           own       == NamesUnder(Resolved(sendScope), blockless)
           foreign   == UNION {NamesUnder(Resolved(other), blockless) :
                                 other \in {o \in DOMAIN slugs :
                                              /\ sendScope >= 1
                                              /\ o # sendScope
                                              /\ slugs[o] # slugs[sendScope]}}
       IN  /\ \A k \in DOMAIN series :
                 series[k].metric \in own /\ series[k].metric \notin foreign
           /\ Orchestrator
              => /\ LastObtained.op = "fetch"
                 /\ LastObtained.ok
                 /\ LastObtained.scope = sendScope
                 /\ LastObtained.list = cur
           \* a freshly prepared series is the flattening of these snapshots
           /\ (sendpc = "chunks" /\ chunkIdx = 0)
              => \E timestamp \in Timestamps :
                    series = prepare_all_metrics(given, Resolved(sendScope), timestamp, None)

\* the second sub-group is being submitted under its own namespace after the
\* first sub-group was submitted
C23_Witness ==
    /\ entry = "main"
    /\ Prepared
    /\ Rollup = None
    /\ sendScope = 2
    /\ chunkIdx = 1
    /\ SubmitsOf(1) # << >>
    /\ series[1].metric = namespace \o ".team." \o ConfiguredSlugs[2] \o ".total_active_users"

\* a series with every kind of block is flattened under a sub-group's
\* namespace
C23_WitnessBlocks ==
    /\ Prepared
    /\ Rollup = None
    /\ namespace = "github.copilot.team.ops"
    /\ \E k \in DOMAIN series :
          series[k].metric = "github.copilot.team.ops.dotcom.pull_requests.repositories.models.total_pr_summaries_created"

(***************************************************************************)
(* C24. The rollup points do not depend on the scope: with                 *)
(* DATADOG_NAMESPACE_P7S1 set, the rollup points of a prepared series      *)
(* (three for each snapshot with an in-editor chat block) are, name, value,*)
(* timestamp and tags, those that flattening the same snapshots under any  *)
(* other scope namespace, root or sub-group, yields.                       *)
(***************************************************************************)
\* the rollup points of a series, in order
RollupPart(points) ==
    SelectSeq(points, LAMBDA p : p.metric \in Range(RollupNames(Rollup[1])))
\* scope namespaces the flattening is compared under
ScopeNamespacesCompared ==
    {"github.copilot", "github.copilot.team.ops", "acme.copilot.team.ai", "test.prefix"}
C24_RollupIsScopeIndependent ==
    (Prepared /\ IsSome(Rollup) /\ ~AllBlockless)
    => LET given == SnapshotsGiven
           mine  == RollupPart(series)
       IN  /\ Len(mine) = 3 * Cardinality({i \in DOMAIN given : IsSome(IdeChatOf(given[i]))})
           /\ \A other \in ScopeNamespacesCompared :
                 \E timestamp \in Timestamps :
                    RollupPart(prepare_all_metrics(given, other, timestamp, Rollup)) = mine

\* a series flattened under a sub-group's namespace holds the rollup points
\* under the rollup namespace alone
C24_Witness ==
    /\ Prepared
    /\ IsSome(Rollup)
    /\ namespace = "github.copilot.team.ops"
    /\ series # << >>
    /\ series[1].metric = "github.copilot.team.ops.total_active_users"
    /\ \E k \in DOMAIN series :
          /\ series[k].metric = Rollup[1] \o ".copilot_ide_chat.total_chats"
          /\ series[k].points[1].value = 530

(***************************************************************************)
(* C25. A prepared series is the concatenation, in list order, of the      *)
(* points of each snapshot, and the points of one snapshot come in the     *)
(* fixed order: total_active_users, total_engaged_users, then the points   *)
(* of the code-completion, in-editor chat, web chat and pull-request       *)
(* blocks that are present, block by block; flattening the same snapshots  *)
(* again under the same namespace, timestamp and rollup setting gives the  *)
(* same sequence.                                                          *)
(***************************************************************************)
\* the block a metric name under the namespace N belongs to: 0 the core
\* points, 1 code completions, 2 in-editor chat (with its rollup points),
\* 3 web chat, 4 pull requests
BlockOfName(name, N) ==
    CASE name \in {N \o ".total_active_users", N \o ".total_engaged_users"} -> 0
      [] name \in {N \o ".ide.code_completions" \o sfx :
                     sfx \in {".total_engaged_users", ".languages.total_engaged_users",
                              ".languages.total_code_suggestions",
                              ".languages.total_code_acceptances",
                              ".languages.total_code_lines_suggested",
                              ".languages.total_code_lines_accepted",
                              ".editors.total_engaged_users"}} -> 1
      [] name \in {N \o ".ide.chat" \o sfx :
                     sfx \in {".total_engaged_users", ".editors.total_engaged_users",
                              ".editors.models.total_engaged_users",
                              ".editors.models.total_pr_summaries_created"}} -> 2
      [] IsSome(Rollup) /\ name \in Range(RollupNames(Rollup[1])) -> 2
      [] name \in {N \o ".dotcom.chat" \o sfx :
                     sfx \in {".total_engaged_users", ".models.total_engaged_users",
                              ".models.total_chats"}} -> 3
      [] name \in {N \o ".dotcom.pull_requests" \o sfx :
                     sfx \in {".total_engaged_users", ".repositories.total_engaged_users",
                              ".repositories.models.total_engaged_users",
                              ".repositories.models.total_pr_summaries_created"}} -> 4
      [] OTHER -> 9
\* the blocks of a snapshot that are present
BlocksPresent(metric) ==
    {0} \cup (IF IsSome(CodeCompletionsOf(metric)) THEN {1} ELSE {})
        \cup (IF IsSome(IdeChatOf(metric)) THEN {2} ELSE {})
        \cup (IF IsSome(DotcomChatOf(metric)) THEN {3} ELSE {})
        \cup (IF IsSome(PullRequestsOf(metric)) THEN {4} ELSE {})
C25_SeriesOrderIsFixed ==
    Prepared
    => LET given == SnapshotsGiven
           N     == ScopeNamespace(sendScope)
       IN  IF AllBlockless
             THEN \* the points 2i-1 and 2i are those of the i-th snapshot
                  /\ Len(series) = 2 * Len(given)
                  /\ \A k \in DOMAIN series :
                        /\ series[k].metric = (IF k % 2 = 1 THEN N \o ".total_active_users"
                                                            ELSE N \o ".total_engaged_users")
                        /\ series[k].tags[1] = "date:" \o given[(k + 1) \div 2].date
             ELSE /\ series = Concat([i \in 1..Len(given) |-> OfSnapshot(given[i])])
                  /\ \A i \in DOMAIN given :
                        LET own    == OfSnapshot(given[i])
                            blocks == [k \in 1..Len(own) |-> BlockOfName(own[k].metric, N)]
                        IN  /\ own[1].metric = N \o ".total_active_users"
                            /\ own[2].metric = N \o ".total_engaged_users"
                            /\ \A k \in 3..Len(own) : blocks[k] >= 1
                            /\ \A k \in 2..Len(own) : blocks[k - 1] <= blocks[k]
                            /\ Range(blocks) = BlocksPresent(given[i])
                  /\ \E timestamp \in Timestamps :
                        series = prepare_all_metrics(given, N, timestamp, Rollup)

\* a series of several snapshots, the second of which has all four blocks
\* and the third lacks the in-editor chat block
C25_Witness ==
    /\ Prepared
    /\ Len(SnapshotsGiven) >= 3
    /\ BlocksPresent(SnapshotsGiven[2]) = {0, 1, 2, 3, 4}
    /\ BlocksPresent(SnapshotsGiven[3]) = {0, 1, 3, 4}
    /\ Len(OfSnapshot(SnapshotsGiven[2])) > Len(OfSnapshot(SnapshotsGiven[3]))
    /\ series[Len(series)].tags[1] = "date:" \o SnapshotsGiven[Len(SnapshotsGiven)].date

(***************************************************************************)
(* C26. Merging the series of a feature block into the accumulator appends *)
(* all the points of the source, in their order, after the points the      *)
(* accumulator holds, leaves those unchanged as a prefix, and leaves the   *)
(* source empty: no point is lost or duplicated. Checked on every merge    *)
(* that made a prepared series: the accumulator is the series up to the    *)
(* block, the source the points of the block.                              *)
(***************************************************************************)
\* the positions of a prepared series at which the points of a feature block
\* of a snapshot begin, and the position at which the block that begins at k
\* ends
SameBlock(h, k) ==
    /\ series[h].tags[1] = series[k].tags[1]
    /\ BlockOfName(series[h].metric, ScopeNamespace(sendScope))
         = BlockOfName(series[k].metric, ScopeNamespace(sendScope))
BlockStarts ==
    {k \in DOMAIN series :
        /\ BlockOfName(series[k].metric, ScopeNamespace(sendScope)) >= 1
        /\ k = 1 \/ ~SameBlock(k - 1, k)}
BlockEnd(k) ==
    CHOOSE e \in k..Len(series) :
        /\ \A h \in k..e : SameBlock(h, k)
        /\ e = Len(series) \/ ~SameBlock(e + 1, k)
RawSlugs == IF IsSet(env, "GITHUB_TEAM_SLUGS") THEN env["GITHUB_TEAM_SLUGS"][1] ELSE << >>
\* positions where an item with a non-blank character begins: the first
\* non-blank character after a comma (or after the start)
ItemStarts ==
    LET raw == RawSlugs
    IN  {k \in DOMAIN raw :
            /\ raw[k] \notin {",", " "}
            /\ \A h \in 1..(k - 1) :
                  raw[h] \in {",", " "} \/ \E i \in (h + 1)..(k - 1) : raw[i] = ","}
\* the last non-blank character of the item beginning at k
ItemEnd(raw, k) ==
    CHOOSE m \in k..Len(raw) :
        /\ raw[m] \notin {",", " "}
        /\ \A i \in k..m : raw[i] # ","
        /\ \A i \in (m + 1)..Len(raw) :
              raw[i] = " " \/ \E h \in (m + 1)..i : raw[h] = ","
TrimmedItems ==
    LET raw    == RawSlugs
        starts == ItemStarts
    IN  [n \in 1..Cardinality(starts) |->
            LET k == CHOOSE i \in starts : Cardinality({h \in starts : h < i}) = n - 1
            IN  Str(SubSeq(raw, k, ItemEnd(raw, k)))]
\* the run got as far as the sub-group phase
ReachedTeamPhase == entry = "main" \/ IsSome(teamsResult)
C27_OnlyTrimmedNonEmptySlugsAreProcessed ==
    (Orchestrator /\ ConfigComplete)
    => LET items == TrimmedItems
           tried == TeamAttempts
       IN  /\ IsSome(team_slugs) => team_slugs[1] = items
           /\ Len(tried) <= Len(items)
           /\ \A k \in DOMAIN tried : tried[k].scope = k
           /\ \A e \in Range(log) : e.scope <= Len(items)
           /\ Len(teamResults) <= Len(items)
           /\ (sendScope >= 1 /\ Prepared /\ series # << >>)
                => series[1].metric
                     = namespace \o ".team." \o items[sendScope] \o ".total_active_users"
           /\ (Finished /\ ReachedTeamPhase)
                => /\ Len(tried) = Len(items)
                   /\ Len(teamResults) = Len(items)
           /\ (Finished /\ items = << >>)
                => /\ tried = << >>
                   /\ entry = "main" => response = Some(OkResponse(MainMessage))
                   /\ (entry = "handler" /\ ReachedTeamPhase)
                        => /\ teamsResult = Some(OkResult)
                           /\ response = Some(OkResponse(HandlerMessage))
\* a finished run whose list " ops , ," named one sub-group between blanks
\* and empty items, and attempted exactly that one
C27_Witness ==
    /\ Finished
    /\ env["GITHUB_TEAM_SLUGS"] = Some(<< " " >> \o TeamPool[1] \o << " ", ",", " ", "," >>)
    /\ Len(TeamAttempts) = 1
    /\ SubmitsOf(1) # << >>
\* a finished run whose list " , " held only blanks: success, no attempt
C27_WitnessBlank ==
    /\ Finished
    /\ entry = "handler"
    /\ env["GITHUB_TEAM_SLUGS"] = Some(<< " ", ",", " " >>)
    /\ response = Some(OkResponse(HandlerMessage))
    /\ TeamAttempts = << >>

(***************************************************************************)
(* C28. A scope whose fetch fails produces no submit call at all.  Every   *)
(* scope is fetched at most once; send_metrics runs, and a chunk is handed *)
(* to the transport, for a scope only after that scope's fetch returned a  *)
(* non-empty snapshot list; and the outcome recorded for a scope whose     *)
(* fetch failed is the fetch error with the variant the fetch failed with, *)
(* never a dispatch error.                                                 *)
(***************************************************************************)
\* positions in the history of the failed fetches
FailedFetches == {k \in DOMAIN log : log[k].op = "fetch" /\ ~log[k].ok}
\* the scope was fetched before position k and the fetch returned snapshots
FetchedNonEmptyBefore(scope, k) ==
    \E h \in 1..(k - 1) :
        /\ log[h].op = "fetch" /\ log[h].scope = scope /\ log[h].ok
        /\ log[h].list.n > 0
\* the outcome recorded for a scope, None while it has none
ResultOf(scope) ==
    IF scope = 0 THEN rootResult
    ELSE IF scope <= Len(teamResults) THEN Some(teamResults[scope]) ELSE None
C28_FailedFetchSubmitsNothing ==
    Orchestrator
    => /\ \A k \in FailedFetches :
             /\ \A h \in DOMAIN log : log[h].op = "submit" => log[h].scope # log[k].scope
             /\ ResultOf(log[k].scope) = Some([ok |-> FALSE, kind |-> "fetch",
                                               variant |-> log[k].variant, count |-> 0])
             /\ sendpc # "idle" => sendScope # log[k].scope
       /\ \A k \in DOMAIN log :
             log[k].op = "submit" => FetchedNonEmptyBefore(log[k].scope, k)
       /\ sendpc # "idle" => FetchedNonEmptyBefore(sendScope, Len(log) + 1)
       /\ \A h, k \in DOMAIN log :
             (log[h].op = "fetch" /\ log[k].op = "fetch" /\ log[h].scope = log[k].scope)
             => h = k
\* a finished run of team.rs's loop in which one sub-group's fetch failed and
\* another's succeeded and was submitted
C28_Witness ==
    /\ entry = "main"
    /\ Finished
    /\ \E k \in FailedFetches : log[k].scope = 1 /\ log[k].variant = "NotFound"
    /\ SubmitsOf(1) = << >>
    /\ SubmitsOf(2) # << >>
    /\ teamResults[1].kind = "fetch" /\ teamResults[2].ok
\* the same for the root scope (enterprise.rs)
C28_WitnessRoot ==
    /\ entry = "main"
    /\ Finished
    /\ \E k \in FailedFetches : log[k].scope = 0
    /\ SubmitsOf(0) = << >>
    /\ rootResult[1].kind = "fetch"

(***************************************************************************)
(* C29. At every point of process_all_teams' loop success_count +          *)
(* error_count equals the number of sub-groups already processed           *)
(* (success_count counts those that returned Ok, error_count those that    *)
(* returned Err), no step decreases either counter or adds more than one   *)
(* to their sum, and once the loop has ended the sum equals the number of  *)
(* configured sub-groups.                                                  *)
(***************************************************************************)
\* process_all_teams has been entered
InTeamLoop == entry = "main" /\ pc \in {"m_team", "m_team_send", "m_teams_end"}
\* process_all_teams has left its for loop
TeamLoopEnded == entry = "main" /\ (pc = "m_teams_end" \/ IsSome(teamsResult))
CountersMatchProcessed ==
    (InTeamLoop \/ TeamLoopEnded)
    => /\ success_count + error_count = Len(teamResults)
       /\ success_count = Cardinality({i \in DOMAIN teamResults : teamResults[i].ok})
       /\ error_count = Cardinality(FailedTeams)
       /\ InTeamLoop /\ pc # "m_teams_end" => Len(teamResults) = idx - 1
       /\ TeamLoopEnded => success_count + error_count = Len(ConfiguredSlugs)
CountersNeverDecrease ==
    /\ success_count' >= success_count
    /\ error_count' >= error_count
    /\ success_count' + error_count' <= success_count + error_count + 1
    /\ (success_count' + error_count' = success_count + error_count + 1)
         <=> Len(teamResults') = Len(teamResults) + 1 /\ entry = "main"
C29_CountersPartitionProcessedTeams ==
    [](Orchestrator => CountersMatchProcessed) /\ [][CountersNeverDecrease]_vars
\* the loop has ended with one sub-group counted in each counter
C29_Witness ==
    /\ entry = "main"
    /\ pc = "m_teams_end"
    /\ success_count = 1 /\ error_count = 1
    /\ Len(ConfiguredSlugs) = 2
\* the loop is between two sub-groups, the first one counted as failed
C29_WitnessMidLoop ==
    /\ entry = "main"
    /\ pc = "m_team"
    /\ idx = 2
    /\ success_count = 0 /\ error_count = 1

(***************************************************************************)
(* C30. In handler.rs's process_team_metrics a failed fetch for a team or  *)
(* a failed send_metrics for one dated snapshot never stops the loop and   *)
(* is never returned.  Whatever the outcome of a send_metrics call, the    *)
(* next step dispatches the team's next snapshot, or goes to the next team *)
(* after the last snapshot, or returns the success response after the last *)
(* team; a failed fetch likewise goes to the next team or returns the      *)
(* success response.  So a finished run that entered the function has      *)
(* attempted every configured team, dispatched every snapshot of every     *)
(* team whose fetch returned some, and returned Ok with the statusCode 200 *)
(* response, for every combination of failures.                            *)
(***************************************************************************)
\* handler.rs's process_team_metrics has returned
TeamPathReturned == entry = "handler" /\ Finished /\ IsSome(teamsResult)
\* send_metrics calls that failed before any chunk was handed over (the clock
\* error): the failures that left no event in the history
UnloggedFailures == failures - Cardinality({k \in DOMAIN log : ~log[k].ok})
\* the send_metrics calls of a scope that handed at least one chunk over
DispatchCallsOf(scope) == {e.call : e \in Range(SubmitsOf(scope))}
\* the snapshots a team's fetch returned (none when it failed)
SnapshotsFetched(scope) ==
    LET f == FetchesOf(scope)
    IN  IF f # << >> /\ f[1].ok THEN Len(MetricsOf(f[1].list)) ELSE 0
TeamPathOutcome ==
    TeamPathReturned
    => /\ teamsResult = Some(OkResult)
       /\ response = Some(OkResponse(HandlerMessage))
       /\ Len(TeamAttempts) = Len(ConfiguredSlugs)
       /\ \A k \in DOMAIN TeamAttempts : TeamAttempts[k].scope = k
       /\ ~Mock => \A s \in 1..Len(ConfiguredSlugs) :
                       /\ Cardinality(DispatchCallsOf(s)) <= SnapshotsFetched(s)
                       /\ Cardinality(DispatchCallsOf(s)) + UnloggedFailures
                            >= SnapshotsFetched(s)
\* what follows the body of the loops, whatever the body's outcome was
TeamLoopGoesOn ==
    /\ (entry = "handler" /\ pc = "h_team_send" /\ sendpc = "ret")
         => IF j < Len(MetricsOf(cur))
              THEN pc' = "h_team_loop" /\ j' = j + 1 /\ idx' = idx /\ cur' = cur
              ELSE IF idx < Len(Slugs)
                     THEN pc' = "h_team" /\ idx' = idx + 1
                     ELSE pc' = "done" /\ response' = Some(OkResponse(HandlerMessage))
    /\ (entry = "handler" /\ pc = "h_team" /\ Len(log') = Len(log) + 1
           /\ ~log'[Len(log')].ok)
         => IF idx < Len(Slugs)
              THEN pc' = "h_team" /\ idx' = idx + 1
              ELSE pc' = "done" /\ response' = Some(OkResponse(HandlerMessage))
C30_WitnessAllFetchesFail ==
    /\ TeamPathReturned
    /\ Len(ConfiguredSlugs) = 2
    /\ \A s \in 1..2 : FetchesOf(s) # << >> /\ ~FetchesOf(s)[1].ok
    /\ response[1].ok

====
